---- MODULE Spec2Model ----
(***************************************************************************)
(* Model of the three_scene character controllers: the character-driven    *)
(* variant (PlayerModel / follow PlayerCamera / gameScenePlayerDriven) and *)
(* the camera-driven variant (PlayerModel / PlayerCamera /                 *)
(* gameSceneCameraDriven).                                                 *)
(*                                                                         *)
(* Numbers.  JavaScript numbers are rounded binary floating point; the     *)
(* model keeps every number on a decimal fixed-point grid of 1/Scale and   *)
(* rounds the exact result of each arithmetic operation to the nearest     *)
(* grid value (ties away from zero), so an operation whose exact result is *)
(* representable is exact, as in the code.  Lengths, speeds and radians    *)
(* are all in units of 1/Scale; times are seconds in units of 1/Scale.     *)
(***************************************************************************)
EXTENDS Integers, Sequences, FiniteSets, TLC

\* ------------------------------------------------------------------------
\* Fixed-point arithmetic
\* ------------------------------------------------------------------------

Scale == 10^4

Abs(a) == IF a < 0 THEN -a ELSE a

Sgn(a) == IF a < 0 THEN -1 ELSE IF a > 0 THEN 1 ELSE 0

\* a / b for b > 0, rounded to the nearest integer, ties away from zero.
RDiv(a, b) ==
  LET q == Abs(a) \div b
      r == Abs(a) % b
  IN Sgn(a) * (q + (IF 2 * r >= b THEN 1 ELSE 0))

\* The product of two grid numbers, rounded to the grid.  |a| is split into
\* its whole and fractional part so that no intermediate exceeds 32 bits.
Mul(a, b) ==
  LET q == Abs(a) \div Scale
      r == Abs(a) % Scale
  IN Sgn(a) * (q * b + RDiv(r * b, Scale))

\* The quotient of two grid numbers (b # 0), rounded to the grid.
Div(a, b) == Sgn(b) * RDiv(a * Scale, Abs(b))

\* A decimal literal n / d (d > 0) on the grid, e.g. Dec(18, 10) is 1.8.
Dec(n, d) == RDiv(n * Scale, d)

RECURSIVE SqrtSearch(_, _, _)
SqrtSearch(n, lo, hi) ==
  IF lo >= hi THEN lo
  ELSE LET mid == (lo + hi + 1) \div 2
       IN IF mid * mid <= n THEN SqrtSearch(n, mid, hi)
          ELSE SqrtSearch(n, lo, mid - 1)

\* The integer nearest to the square root of n, given its floor r.
SqrtRound(n, r) == IF n - r * r > r THEN r + 1 ELSE r

\* Math.sqrt of a non-negative integer, rounded to the nearest integer.
ISqrt(n) == SqrtRound(n, SqrtSearch(n, 0, 46340))

\* Math.exp(x) for x <= 0, by the Taylor polynomial of degree 4 in Horner
\* form (the error is below one grid unit for -0.5 <= x <= 0).
Exp(x) ==
  LET h4 == Scale + RDiv(x, 4)
      h3 == Scale + RDiv(Mul(x, h4), 3)
      h2 == Scale + RDiv(Mul(x, h3), 2)
  IN Scale + Mul(x, h2)

\* Math.PI on the grid.
Pi == 31416

\* An angle reduced to (-Pi, Pi].
WrapAngle(t) ==
  LET m == t % (2 * Pi)
  IN IF m > Pi THEN m - 2 * Pi ELSE m

\* sin on [-Pi/2, Pi/2]: Taylor polynomial of degree 9, Horner form.
SinPoly(t) ==
  LET t2 == Mul(t, t)
      h9 == Scale - RDiv(t2, 72)
      h7 == Scale - RDiv(Mul(t2, h9), 42)
      h5 == Scale - RDiv(Mul(t2, h7), 20)
      h3 == Scale - RDiv(Mul(t2, h5), 6)
  IN Mul(t, h3)

\* cos on [-Pi/2, Pi/2]: Taylor polynomial of degree 10, Horner form.
CosPoly(t) ==
  LET t2 == Mul(t, t)
      h10 == Scale - RDiv(t2, 90)
      h8 == Scale - RDiv(Mul(t2, h10), 56)
      h6 == Scale - RDiv(Mul(t2, h8), 30)
      h4 == Scale - RDiv(Mul(t2, h6), 12)
  IN Scale - RDiv(Mul(t2, h4), 2)

\* An angle w of (-Pi, Pi] reflected into [-Pi/2, Pi/2] about Pi/2 or
\* -Pi/2: the sine is unchanged, the cosine changes sign.
FoldAngle(w) ==
  IF 2 * w > Pi THEN Pi - w
  ELSE IF 2 * w < -Pi THEN -Pi - w
  ELSE w

\* Math.sin
Sin(t) == SinPoly(FoldAngle(WrapAngle(t)))

\* cos of an angle of (-Pi, Pi]
CosWrapped(w) == (IF 2 * Abs(w) > Pi THEN -1 ELSE 1) * CosPoly(FoldAngle(w))

\* Math.cos
Cos(t) == CosWrapped(WrapAngle(t))

\* atan on [0, 1]: the argument is halved twice by
\* atan(a) = 2 * atan(a / (1 + sqrt(1 + a^2))), then the Taylor polynomial
\* of degree 7.
AtanHalve(a) == Div(a, Scale + ISqrt(Scale * Scale + a * a))

AtanPoly(c) ==
  LET c2 == Mul(c, c)
      h7 == Scale - RDiv(5 * c2, 7)
      h5 == Scale - RDiv(3 * Mul(c2, h7), 5)
      h3 == Scale - RDiv(Mul(c2, h5), 3)
  IN Mul(c, h3)

Atan01(a) == 4 * AtanPoly(AtanHalve(AtanHalve(a)))

\* The smaller of |y|, |x| over the larger, in [0, 1]; 0 for y = x = 0.
AtanRatio(y, x) ==
  IF x = 0 /\ y = 0 THEN 0
  ELSE IF Abs(y) <= Abs(x) THEN Div(Abs(y), Abs(x))
  ELSE Div(Abs(x), Abs(y))

\* atan2(y, x) from a, the arctangent of AtanRatio(y, x): the octant, then
\* the half-plane, then the sign of y.
AtanPlace(y, x, a) ==
  LET first == IF Abs(y) <= Abs(x) THEN a ELSE RDiv(Pi, 2) - a
      upper == IF x < 0 THEN Pi - first ELSE first
  IN IF y < 0 THEN -upper ELSE upper

\* Math.atan2(y, x), in (-Pi, Pi]; atan2(0, 0) is 0.
Atan2(y, x) == AtanPlace(y, x, Atan01(AtanRatio(y, x)))

\* ------------------------------------------------------------------------
\* three.js values used by the controllers: Vector3, Matrix4, Capsule
\* ------------------------------------------------------------------------

Vec(a, b, c) == [x |-> a, y |-> b, z |-> c]

ZeroVec == Vec(0, 0, 0)

\* Vector3.add
VAdd(u, v) == Vec(u.x + v.x, u.y + v.y, u.z + v.z)

\* Vector3.sub
VSub(u, v) == Vec(u.x - v.x, u.y - v.y, u.z - v.z)

\* Vector3.multiplyScalar
VScale(u, s) == Vec(Mul(u.x, s), Mul(u.y, s), Mul(u.z, s))

\* Vector3.addScaledVector: this += v * s, component by component
VAddScaled(u, v, s) == Vec(u.x + Mul(v.x, s), u.y + Mul(v.y, s), u.z + Mul(v.z, s))

\* Vector3.dot
VDot(u, v) == Mul(u.x, v.x) + Mul(u.y, v.y) + Mul(u.z, v.z)

\* Vector3.cross: this = this x v
VCross(u, v) ==
  Vec(Mul(u.y, v.z) - Mul(u.z, v.y),
      Mul(u.z, v.x) - Mul(u.x, v.z),
      Mul(u.x, v.y) - Mul(u.y, v.x))

\* Vector3.length
VLength(u) == ISqrt(u.x * u.x + u.y * u.y + u.z * u.z)

\* Vector3.normalize: divideScalar(length() || 1), so the zero vector is
\* left as it is.
VDivideScalar(u, len) ==
  IF len = 0 THEN u
  ELSE Vec(Div(u.x, len), Div(u.y, len), Div(u.z, len))

VNormalize(u) == VDivideScalar(u, VLength(u))

\* Vector3.lerp: this += (v - this) * alpha
VLerp(u, v, alpha) ==
  Vec(u.x + Mul(v.x - u.x, alpha),
      u.y + Mul(v.y - u.y, alpha),
      u.z + Mul(v.z - u.z, alpha))

\* Matrix4.makeRotationY: the sixteen elements in three.js's column-major
\* order (elements[0] is here element 1).
RotationYElements(c, s) ==
  << c, 0, -s, 0,
     0, Scale, 0, 0,
     s, 0, c, 0,
     0, 0, 0, Scale >>

MakeRotationY(theta) == RotationYElements(Cos(theta), Sin(theta))

\* Vector3.applyMatrix4, with its perspective divide.
VApplyMatrix4W(u, e, w) ==
  Vec(Mul(Mul(e[1], u.x) + Mul(e[5], u.y) + Mul(e[9], u.z) + e[13], w),
      Mul(Mul(e[2], u.x) + Mul(e[6], u.y) + Mul(e[10], u.z) + e[14], w),
      Mul(Mul(e[3], u.x) + Mul(e[7], u.y) + Mul(e[11], u.z) + e[15], w))

VApplyMatrix4(u, e) ==
  VApplyMatrix4W(u, e,
                 Div(Scale, Mul(e[4], u.x) + Mul(e[8], u.y) + Mul(e[12], u.z) + e[16]))

\* Vector3.applyAxisAngle about the Y axis: Quaternion.setFromAxisAngle
\* gives q = (0, sin(angle/2), 0, cos(angle/2)); applyQuaternion computes
\* t = 2 * cross(q.xyz, v) and v + q.w * t + cross(q.xyz, t).
VApplyQuaternionY(u, qy, qw) ==
  LET tx == 2 * Mul(qy, u.z)
      tz == -2 * Mul(qy, u.x)
  IN Vec(u.x + Mul(qw, tx) + Mul(qy, tz),
         u.y,
         u.z + Mul(qw, tz) - Mul(qy, tx))

VApplyAxisAngleY(u, angle) ==
  VApplyQuaternionY(u, Sin(RDiv(angle, 2)), Cos(RDiv(angle, 2)))

\* new Capsule(start, end, radius)
Capsule(s, e, r) == [start |-> s, end |-> e, radius |-> r]

\* Capsule.translate
CapsuleTranslate(c, v) == [c EXCEPT !.start = VAdd(c.start, v), !.end = VAdd(c.end, v)]

\* JavaScript values of a key-map entry and of a move-state flag: a key
\* that was never pressed reads as undefined.
JSTrue == "true"

JSFalse == "false"

UNDEF == "undefined"

\* A faulty reading of the key map that takes every key that was ever
\* written, released or not, for pressed.
Truthy_everWritten(b) == b # UNDEF

\* JavaScript truthiness of a key-map entry.
Truthy(b) == b = JSTrue

\* A nullable object reference: null, or the object it points to.
NULL == << >>

Ref(obj) == << obj >>

Deref(r) == r[1]

Keys == {"KeyW", "KeyS", "KeyA", "KeyD", "Space"}

\* ------------------------------------------------------------------------
\* Character-driven variant: PlayerModel
\* ------------------------------------------------------------------------

groundSpeed == 25

airSpeed == 8

jumpForce == 15

dampingFactor == 4

\* The capsule the constructor and resetPosition build: start (0, 0, 0),
\* end (0, 1.8, 0), radius 0.35.
SpawnCapsule == Capsule(Vec(0, 0, 0), Vec(0, Dec(18, 10), 0), Dec(35, 100))

\* The Soldier.glb scene as loadModel leaves it: rotation.y = Math.PI.
LoadedMesh == [position |-> ZeroVec, rotationY |-> Pi]

\* The fields of a character-driven PlayerModel after its constructor.
PD_PlayerModel ==
  [player |-> NULL,
   playerCollider |-> SpawnCapsule,
   playerVelocity |-> ZeroVec,
   playerOnFloor |-> FALSE,
   debugCapsule |-> ZeroVec,
   playerDirection |-> Vec(0, 0, Scale),
   moveState |-> [forward |-> JSFalse, backward |-> JSFalse, left |-> JSFalse,
                  right |-> JSFalse, jump |-> JSFalse]]

\* loadModel's onLoad callback
PD_loadModel(pm) == [pm EXCEPT !.player = Ref(LoadedMesh)]

\* updateDebugCapsule (showDebug is true and never toggled by the scene)
PD_updateDebugCapsule(pm) == [pm EXCEPT !.debugCapsule = pm.playerCollider.start]

\* updateModelTransform
PD_updateModelTransform(pm) ==
  LET moved ==
        IF pm.player # NULL
        THEN [pm EXCEPT !.player =
                Ref([position |-> pm.playerCollider.start,
                     rotationY |-> Atan2(pm.playerDirection.x, pm.playerDirection.z)])]
        ELSE pm
  IN PD_updateDebugCapsule(moved)

\* updateMovementState
PD_updateMovementState(pm, keyStates) ==
  [pm EXCEPT !.moveState = [forward |-> keyStates["KeyW"],
                            backward |-> keyStates["KeyS"],
                            left |-> keyStates["KeyA"],
                            right |-> keyStates["KeyD"],
                            jump |-> keyStates["Space"]]]

\* A faulty executeJump that adds the jump speed to the vertical velocity.
PD_executeJump_adds(pm) ==
  IF pm.playerOnFloor
  THEN [pm EXCEPT !.playerVelocity.y = @ + jumpForce * Scale]
  ELSE pm

\* executeJump
PD_executeJump(pm) ==
  IF pm.playerOnFloor
  THEN [pm EXCEPT !.playerVelocity.y = jumpForce * Scale]
  ELSE pm

\* A faulty left turn, turning to the right.
PD_turnLeft_clockwise(pm, rotationSpeed) ==
  IF Truthy(pm.moveState.left)
  THEN [pm EXCEPT !.playerDirection =
          VNormalize(VApplyMatrix4(@, MakeRotationY(-rotationSpeed)))]
  ELSE pm

\* processMovement, the left turn: if (this.moveState.left) ...
PD_turnLeft(pm, rotationSpeed) ==
  IF Truthy(pm.moveState.left)
  THEN [pm EXCEPT !.playerDirection =
          VNormalize(VApplyMatrix4(@, MakeRotationY(rotationSpeed)))]
  ELSE pm

\* processMovement, the right turn: if (this.moveState.right) ...
PD_turnRight(pm, rotationSpeed) ==
  IF Truthy(pm.moveState.right)
  THEN [pm EXCEPT !.playerDirection =
          VNormalize(VApplyMatrix4(@, MakeRotationY(-rotationSpeed)))]
  ELSE pm

\* processMovement, the turn: rotationSpeed = 1.5 * deltaTime, the left
\* turn, then the right turn
PD_turn(pm, deltaTime) ==
  PD_turnRight(PD_turnLeft(pm, RDiv(15 * deltaTime, 10)), RDiv(15 * deltaTime, 10))

\* A faulty move in which forward wins over backward.
PD_translate_forwardWins(pm, deltaTime) ==
  IF Truthy(pm.moveState.forward)
  THEN [pm EXCEPT !.playerVelocity =
          VAdd(@, VScale([VNormalize(pm.playerDirection) EXCEPT !.y = 0],
                         deltaTime * (IF pm.playerOnFloor THEN groundSpeed ELSE airSpeed)))]
  ELSE pm

\* processMovement, the forward/backward move: lines 200, 221-242
PD_translate(pm, deltaTime) ==
  LET speedDelta == deltaTime * (IF pm.playerOnFloor THEN groundSpeed ELSE airSpeed)
      fwd == IF Truthy(pm.moveState.forward)
             THEN VAdd(ZeroVec, pm.playerDirection) ELSE ZeroVec
      moveDirection == IF Truthy(pm.moveState.backward)
                       THEN VSub(fwd, pm.playerDirection) ELSE fwd
      hasMovement == Truthy(pm.moveState.forward) \/ Truthy(pm.moveState.backward)
      flat == [VNormalize(moveDirection) EXCEPT !.y = 0]
  IN IF hasMovement
     THEN [pm EXCEPT !.playerVelocity = VAdd(pm.playerVelocity, VScale(flat, speedDelta))]
     ELSE pm

\* processMovement, the jump: if (this.moveState.jump) this.executeJump()
PD_jump(pm) == IF Truthy(pm.moveState.jump) THEN PD_executeJump(pm) ELSE pm

\* processMovement
PD_processMovement(pm, deltaTime) ==
  PD_jump(PD_translate(PD_turn(pm, deltaTime), deltaTime))

\* handleRotationInput
PD_handleRotationInput(pm, deltaX) ==
  LET angle == -deltaX * Dec(2, 1000)
  IN [pm EXCEPT !.playerDirection =
        VNormalize(VApplyAxisAngleY(pm.playerDirection, angle))]

\* ------------------------------------------------------------------------
\* The collaborator: Octree.capsuleIntersect
\* ------------------------------------------------------------------------

\* A penetration depth: units / Scale + e11 * 10^-11, with e11 the part of
\* the depth below the grid.  The noise floor 1e-10 of checkCollisions is
\* ten of the small units.
Depth(units, e11) == [units |-> units, e11 |-> e11]

DepthAtLeastNoiseFloor(d) == d.units > 0 \/ d.e11 >= 10

\* The depth on the grid (the part below the grid rounds away).
DepthOnGrid(d) == d.units

\* The result of capsuleIntersect: false (no contact), or a contact normal
\* and a depth.
NoContact == NULL

Contact(n, d) == Ref([normal |-> n, depth |-> d])

\* A faulty checkCollisions that removes the velocity along the normal on
\* floors too.
PD_checkCollisions_slidesOnFloor(pm, result) ==
  IF result = NoContact
  THEN [pm EXCEPT !.playerOnFloor = FALSE]
  ELSE [pm EXCEPT !.playerOnFloor = Deref(result).normal.y > 0,
                  !.playerVelocity = VAddScaled(@, Deref(result).normal,
                                                -VDot(Deref(result).normal, @)),
                  !.playerCollider =
                     IF DepthAtLeastNoiseFloor(Deref(result).depth)
                     THEN CapsuleTranslate(@, VScale(Deref(result).normal,
                                                     DepthOnGrid(Deref(result).depth)))
                     ELSE @]

\* A faulty checkCollisions that clears the floor flag only inside its
\* contact branch, so that without a contact the flag of the earlier call
\* survives.
PD_checkCollisions_keepsFloorFlag(pm, result) ==
  IF result = NoContact
  THEN pm
  ELSE [pm EXCEPT !.playerOnFloor = Deref(result).normal.y > 0,
                  !.playerVelocity =
                     IF ~(Deref(result).normal.y > 0)
                     THEN VAddScaled(@, Deref(result).normal,
                                     -VDot(Deref(result).normal, @))
                     ELSE @,
                  !.playerCollider =
                     IF DepthAtLeastNoiseFloor(Deref(result).depth)
                     THEN CapsuleTranslate(@, VScale(Deref(result).normal,
                                                     DepthOnGrid(Deref(result).depth)))
                     ELSE @]

\* PlayerModel.checkCollisions of the character-driven variant
PD_checkCollisions(pm, result) ==
  IF result = NoContact
  THEN [pm EXCEPT !.playerOnFloor = FALSE]
  ELSE LET normal == Deref(result).normal
           depth == Deref(result).depth
           onFloor == normal.y > 0
           slid == IF ~onFloor
                   THEN VAddScaled(pm.playerVelocity, normal, -VDot(normal, pm.playerVelocity))
                   ELSE pm.playerVelocity
           pushed == IF DepthAtLeastNoiseFloor(depth)
                     THEN CapsuleTranslate(pm.playerCollider, VScale(normal, DepthOnGrid(depth)))
                     ELSE pm.playerCollider
       IN [pm EXCEPT !.playerOnFloor = onFloor,
                     !.playerVelocity = slid,
                     !.playerCollider = pushed]

\* updatePhysics, the damping: Math.exp(-dampingFactor * deltaTime) - 1,
\* and a tenth of it when airborne
PD_damping(pm, full) == IF ~pm.playerOnFloor THEN Mul(full, Dec(1, 10)) ELSE full

\* A faulty gravity step that pulls the player down on the floor too.
PD_gravity_always(pm, deltaTime, gravity) ==
  [pm EXCEPT !.playerVelocity.y = @ - gravity * deltaTime]

\* updatePhysics, the gravity: playerVelocity.y -= gravity * deltaTime when
\* airborne
PD_gravity(pm, deltaTime, gravity) ==
  IF ~pm.playerOnFloor
  THEN [pm EXCEPT !.playerVelocity.y = @ - gravity * deltaTime]
  ELSE pm

\* A faulty damping step that leaves the velocity undamped.
PD_damp_undamped(pm, damping) == pm

\* updatePhysics, the damped velocity: addScaledVector(playerVelocity, damping)
PD_damp(pm, damping) ==
  [pm EXCEPT !.playerVelocity = VAddScaled(@, @, damping)]

\* updatePhysics, the move: the collider translated by velocity * deltaTime
PD_move(pm, deltaTime) ==
  [pm EXCEPT !.playerCollider = CapsuleTranslate(@, VScale(pm.playerVelocity, deltaTime))]

\* updatePhysics up to the collider's move
PD_integrate(pm, deltaTime, gravity) ==
  PD_move(PD_damp(PD_gravity(pm, deltaTime, gravity),
                  PD_damping(pm, Exp(-dampingFactor * deltaTime) - Scale)),
          deltaTime)

\* PlayerModel.updatePhysics of the character-driven variant
PD_updatePhysics(pm, deltaTime, gravity) ==
  PD_updateModelTransform(PD_integrate(pm, deltaTime, gravity))

\* A faulty resetPosition that forgets the velocity.
PD_resetPosition_keepsVelocity(pm) ==
  [pm EXCEPT !.playerCollider = Capsule(Vec(0, 0, 0), Vec(0, Dec(18, 10), 0), Dec(35, 100))]

\* A faulty resetPosition that also turns the character back to its initial
\* facing.
PD_resetPosition_resetsFacing(pm) ==
  [pm EXCEPT !.playerCollider = Capsule(Vec(0, 0, 0), Vec(0, Dec(18, 10), 0), Dec(35, 100)),
             !.playerVelocity = Vec(0, 0, 0),
             !.playerDirection = Vec(0, 0, Scale)]

\* PlayerModel.resetPosition of the character-driven variant
PD_resetPosition(pm) ==
  [pm EXCEPT !.playerCollider = Capsule(Vec(0, 0, 0), Vec(0, Dec(18, 10), 0), Dec(35, 100)),
             !.playerVelocity = Vec(0, 0, 0)]

\* A faulty getColliderPosition that reads the position back from the mesh
\* once there is one.
PD_getColliderPosition_fromMesh(pm) ==
  IF pm.player # NULL THEN Deref(pm.player).position ELSE pm.playerCollider.end

\* getColliderPosition (and getPosition, which returns it)
PD_getColliderPosition(pm) == pm.playerCollider.end

\* isLoaded
PD_isLoaded(pm) == pm.player # NULL

\* ------------------------------------------------------------------------
\* Character-driven variant: the follow PlayerCamera
\* ------------------------------------------------------------------------

followDistance == 5

followHeight == 2

followSpeed == 5

\* The THREE.PerspectiveCamera of a scene: its position, its Euler rotation
\* (order YXZ; z stays 0) and the point lookAt last aimed it at.
NewCamera == [position |-> ZeroVec, rotation |-> [x |-> 0, y |-> 0], lookAt |-> ZeroVec]

\* The fields of a follow PlayerCamera after its constructor.
PD_PlayerCamera ==
  [cameraAngleY |-> 0,
   cameraAngleX |-> Dec(3, 10),
   targetPosition |-> ZeroVec,
   targetLookAt |-> ZeroVec]

\* calculateTargetPosition
\* calculateTargetPosition, its cameraOffset vector
PD_followOffset(playerDirection, horizontalDistance, verticalOffset) ==
  Vec(Mul(-playerDirection.x, horizontalDistance),
      followHeight * Scale + verticalOffset,
      Mul(-playerDirection.z, horizontalDistance))

\* calculateTargetPosition
PD_calculateTargetPosition(cm, playerPosition, playerDirection) ==
  [cm EXCEPT !.targetPosition =
     VAdd(playerPosition,
          VApplyMatrix4(PD_followOffset(playerDirection,
                                        followDistance * Cos(cm.cameraAngleX),
                                        followDistance * Sin(cm.cameraAngleX)),
                        MakeRotationY(cm.cameraAngleY)))]

\* update after calculateTargetPosition: the look-at point, the lerp and
\* lookAt
PD_follow(aimed, cam, playerPosition, deltaTime) ==
  LET lookAt == [playerPosition EXCEPT !.y = @ + RDiv(followHeight * Scale, 2)]
  IN << [aimed EXCEPT !.targetLookAt = lookAt],
        [cam EXCEPT !.position = VLerp(cam.position, aimed.targetPosition,
                                       followSpeed * deltaTime),
                    !.lookAt = lookAt] >>

\* update: the pair << PlayerCamera fields, camera >> after the call
PD_cameraUpdate(cm, cam, pm, deltaTime) ==
  IF ~PD_isLoaded(pm) THEN << cm, cam >>
  ELSE PD_follow(PD_calculateTargetPosition(cm, PD_getColliderPosition(pm),
                                            pm.playerDirection),
                 cam, PD_getColliderPosition(pm), deltaTime)

Max(a, b) == IF a >= b THEN a ELSE b

Min(a, b) == IF a <= b THEN a ELSE b

\* handleMouseMove of the follow camera (mouseSensitivity is 0.001)
PD_handleMouseMove(cm, pointerLocked, movementX, movementY) ==
  IF pointerLocked
  THEN LET angleY == cm.cameraAngleY - movementX * Dec(1, 1000)
           angleX == cm.cameraAngleX - movementY * Dec(1, 1000)
       IN [cm EXCEPT !.cameraAngleY = angleY,
                     !.cameraAngleX = Max(-RDiv(Pi, 3), Min(RDiv(Pi, 12), angleX))]
  ELSE cm

\* A faulty resetCameraAngles that re-zeroes the horizontal angle only.
PD_resetCameraAngles_keepsPitch(cm) == [cm EXCEPT !.cameraAngleY = 0]

\* resetCameraAngles
PD_resetCameraAngles(cm) ==
  [cm EXCEPT !.cameraAngleY = 0, !.cameraAngleX = Dec(1, 10)]

\* ------------------------------------------------------------------------
\* Camera-driven variant: PlayerModel
\* ------------------------------------------------------------------------

\* The fields of a camera-driven PlayerModel after its constructor.
CD_PlayerModel ==
  [player |-> NULL,
   playerCollider |-> Capsule(Vec(0, 0, 0), Vec(0, Dec(18, 10), 0), Dec(35, 100)),
   playerVelocity |-> ZeroVec,
   playerOnFloor |-> FALSE]

\* loadModel's onLoad callback
CD_loadModel(pm) == [pm EXCEPT !.player = Ref(LoadedMesh)]

\* isLoaded
CD_isLoaded(pm) == pm.player # NULL

\* updatePosition
CD_updatePosition(pm, position) ==
  IF pm.player # NULL
  THEN [pm EXCEPT !.player = Ref([Deref(pm.player) EXCEPT !.position = position])]
  ELSE pm

\* updateRotation
CD_updateRotation(pm, rotation) ==
  IF pm.player # NULL
  THEN [pm EXCEPT !.player = Ref([Deref(pm.player) EXCEPT !.rotationY = rotation])]
  ELSE pm

\* A faulty checkCollisions that slides along ceilings only, not along
\* vertical walls.
CD_checkCollisions_keepsWallSpeed(pm, result) ==
  IF result = NoContact
  THEN [pm EXCEPT !.playerOnFloor = FALSE]
  ELSE [pm EXCEPT !.playerOnFloor = Deref(result).normal.y > 0,
                  !.playerVelocity =
                     IF Deref(result).normal.y < 0
                     THEN VAddScaled(@, Deref(result).normal,
                                     -VDot(Deref(result).normal, @))
                     ELSE @,
                  !.playerCollider =
                     IF DepthAtLeastNoiseFloor(Deref(result).depth)
                     THEN CapsuleTranslate(@, VScale(Deref(result).normal,
                                                     DepthOnGrid(Deref(result).depth)))
                     ELSE @]

\* PlayerModel.checkCollisions of the camera-driven variant
CD_checkCollisions(pm, result) ==
  IF result = NoContact
  THEN [pm EXCEPT !.playerOnFloor = FALSE]
  ELSE LET normal == Deref(result).normal
           depth == Deref(result).depth
           onFloor == normal.y > 0
           slid == IF ~onFloor
                   THEN VAddScaled(pm.playerVelocity, normal, -VDot(normal, pm.playerVelocity))
                   ELSE pm.playerVelocity
           pushed == IF DepthAtLeastNoiseFloor(depth)
                     THEN CapsuleTranslate(pm.playerCollider, VScale(normal, DepthOnGrid(depth)))
                     ELSE pm.playerCollider
       IN [pm EXCEPT !.playerOnFloor = onFloor,
                     !.playerVelocity = slid,
                     !.playerCollider = pushed]

\* A faulty damping, three hundred times too strong on the floor.
CD_damping_overshoots(pm, full) ==
  IF ~pm.playerOnFloor THEN Mul(full, Dec(1, 10)) ELSE 300 * full

\* updatePhysics, the damping: Math.exp(-dampingFactor * deltaTime) - 1,
\* and a tenth of it when airborne
CD_damping(pm, full) == IF ~pm.playerOnFloor THEN Mul(full, Dec(1, 10)) ELSE full

\* updatePhysics, the gravity: playerVelocity.y -= gravity * deltaTime when
\* airborne
CD_gravity(pm, deltaTime, gravity) ==
  IF ~pm.playerOnFloor
  THEN [pm EXCEPT !.playerVelocity.y = @ - gravity * deltaTime]
  ELSE pm

\* updatePhysics, the damped velocity: addScaledVector(playerVelocity, damping)
CD_damp(pm, damping) ==
  [pm EXCEPT !.playerVelocity = VAddScaled(@, @, damping)]

\* updatePhysics, the move: the collider translated by velocity * deltaTime
CD_move(pm, deltaTime) ==
  [pm EXCEPT !.playerCollider = CapsuleTranslate(@, VScale(pm.playerVelocity, deltaTime))]

\* PlayerModel.updatePhysics of the camera-driven variant
CD_updatePhysics(pm, deltaTime, gravity) ==
  CD_move(CD_damp(CD_gravity(pm, deltaTime, gravity),
                  CD_damping(pm, Exp(-dampingFactor * deltaTime) - Scale)),
          deltaTime)

\* PlayerModel.resetPosition of the camera-driven variant
CD_resetPosition(pm) ==
  [pm EXCEPT !.playerCollider = Capsule(Vec(0, 0, 0), Vec(0, Dec(18, 10), 0), Dec(35, 100)),
             !.playerVelocity = Vec(0, 0, 0)]

\* A faulty speedDelta that takes the ground speed whatever the floor flag.
CD_speedDelta_groundOnly(pm, deltaTime) == deltaTime * groundSpeed

\* speedDelta of the four execute...Movement methods
CD_speedDelta(pm, deltaTime) ==
  deltaTime * (IF pm.playerOnFloor THEN groundSpeed ELSE airSpeed)

\* The direction flattened and normalised, as each execute...Movement does.
CD_flat(direction) == VNormalize([direction EXCEPT !.y = 0])

\* A faulty executeForwardMovement that pushes along the world's -Z axis
\* whatever the direction handed to it.
CD_executeForwardMovement_alongZ(pm, deltaTime, direction) ==
  [pm EXCEPT !.playerVelocity =
     VAdd(@, VScale(Vec(0, 0, -Scale), CD_speedDelta(pm, deltaTime)))]

\* executeForwardMovement
CD_executeForwardMovement(pm, deltaTime, direction) ==
  [pm EXCEPT !.playerVelocity =
     VAdd(@, VScale(CD_flat(direction), CD_speedDelta(pm, deltaTime)))]

\* executeBackwardMovement
CD_executeBackwardMovement(pm, deltaTime, direction) ==
  [pm EXCEPT !.playerVelocity =
     VAdd(@, VScale(CD_flat(direction), -CD_speedDelta(pm, deltaTime)))]

\* executeLeftMovement
CD_executeLeftMovement(pm, deltaTime, direction, up) ==
  [pm EXCEPT !.playerVelocity =
     VAdd(@, VScale(VCross(CD_flat(direction), up), -CD_speedDelta(pm, deltaTime)))]

\* executeRightMovement
CD_executeRightMovement(pm, deltaTime, direction, up) ==
  [pm EXCEPT !.playerVelocity =
     VAdd(@, VScale(VCross(CD_flat(direction), up), CD_speedDelta(pm, deltaTime)))]

\* executeJump
CD_executeJump(pm) ==
  IF pm.playerOnFloor
  THEN [pm EXCEPT !.playerVelocity.y = jumpForce * Scale]
  ELSE pm

\* getColliderPosition
CD_getColliderPosition(pm) == pm.playerCollider.end

\* ------------------------------------------------------------------------
\* Camera-driven variant: PlayerCamera
\* ------------------------------------------------------------------------

\* cameraOffset, (0, 0.8, 0)
cameraOffset == Vec(0, Dec(8, 10), 0)

\* camera.up, three.js's default
CameraUp == Vec(0, Scale, 0)

\* The fields of a camera-driven PlayerCamera after its constructor.
CD_PlayerCamera ==
  [moveState |-> [forward |-> JSFalse, backward |-> JSFalse, left |-> JSFalse,
                  right |-> JSFalse, jump |-> JSFalse]]

\* Camera.getWorldDirection: minus the third column of the world matrix of
\* an Euler rotation of order YXZ with z = 0, normalised.
WorldDirection(a, b, c, d) == VNormalize(Vec(-Mul(a, d), b, -Mul(a, c)))

GetWorldDirection(cam) ==
  WorldDirection(Cos(cam.rotation.x), Sin(cam.rotation.x),
                 Cos(cam.rotation.y), Sin(cam.rotation.y))

\* updateCameraPosition
CD_updateCameraPosition(cam, pm) == [cam EXCEPT !.position = CD_getColliderPosition(pm)]

\* A faulty handleMouseMove that does not clamp the pitch.
CD_handleMouseMove_unclamped(cam, pointerLocked, movementX, movementY) ==
  IF pointerLocked
  THEN [cam EXCEPT !.rotation = [x |-> cam.rotation.x - RDiv(movementY * Scale, 500),
                                 y |-> cam.rotation.y - RDiv(movementX * Scale, 500)]]
  ELSE cam

\* handleMouseMove (mouseSensitivity is 500)
CD_handleMouseMove(cam, pointerLocked, movementX, movementY) ==
  IF pointerLocked
  THEN LET ry == cam.rotation.y - RDiv(movementX * Scale, 500)
           rx == cam.rotation.x - RDiv(movementY * Scale, 500)
       IN [cam EXCEPT !.rotation = [x |-> Max(-RDiv(Pi, 2), Min(RDiv(Pi, 2), rx)),
                                    y |-> ry]]
  ELSE cam

\* resetCameraRotation
CD_resetCameraRotation(cam) == [cam EXCEPT !.rotation = [x |-> 0, y |-> 0]]

\* updateMovementState
CD_updateMovementState(cm, keyStates) ==
  [cm EXCEPT !.moveState = [forward |-> keyStates["KeyW"],
                            backward |-> keyStates["KeyS"],
                            left |-> keyStates["KeyA"],
                            right |-> keyStates["KeyD"],
                            jump |-> keyStates["Space"]]]

\* getCameraDirection
CD_getCameraDirection(cam) == VNormalize([GetWorldDirection(cam) EXCEPT !.y = 0])

\* processMovement: if (this.moveState.forward) ...
CD_forward(st, pm, deltaTime, cameraDirection) ==
  IF Truthy(st.moveState.forward)
  THEN CD_executeForwardMovement(pm, deltaTime, cameraDirection) ELSE pm

\* processMovement: if (this.moveState.backward) ...
CD_backward(st, pm, deltaTime, cameraDirection) ==
  IF Truthy(st.moveState.backward)
  THEN CD_executeBackwardMovement(pm, deltaTime, cameraDirection) ELSE pm

\* processMovement: if (this.moveState.left) ...
CD_left(st, pm, deltaTime, cameraDirection) ==
  IF Truthy(st.moveState.left)
  THEN CD_executeLeftMovement(pm, deltaTime, cameraDirection, CameraUp) ELSE pm

\* processMovement: if (this.moveState.right) ...
CD_right(st, pm, deltaTime, cameraDirection) ==
  IF Truthy(st.moveState.right)
  THEN CD_executeRightMovement(pm, deltaTime, cameraDirection, CameraUp) ELSE pm

\* processMovement: if (this.moveState.jump) { executeJump(); jump = false }
CD_jump(st, pm) ==
  IF Truthy(st.moveState.jump)
  THEN << [st EXCEPT !.moveState.jump = JSFalse], CD_executeJump(pm) >>
  ELSE << st, pm >>

\* processMovement after updateMovementState and getCameraDirection
CD_process(st, pm, deltaTime, cameraDirection) ==
  CD_jump(st,
          CD_right(st,
                   CD_left(st,
                           CD_backward(st,
                                       CD_forward(st, pm, deltaTime, cameraDirection),
                                       deltaTime, cameraDirection),
                           deltaTime, cameraDirection),
                   deltaTime, cameraDirection))

\* processMovement: the pair << PlayerCamera fields, PlayerModel fields >>
\* after the call
CD_processMovement(cm, cam, pm, keyStates, deltaTime) ==
  CD_process(CD_updateMovementState(cm, keyStates), pm, deltaTime,
             CD_getCameraDirection(cam))

\* getPlayerTargetPosition
CD_getPlayerTargetPosition(pm) == VSub(CD_getColliderPosition(pm), cameraOffset)

\* getPlayerTargetRotation
CD_yaw(cameraDirection) == Atan2(cameraDirection.x, cameraDirection.z) + Pi

CD_getPlayerTargetRotation(cam) == CD_yaw(CD_getCameraDirection(cam))

\* A faulty syncPlayerModel that pushes the rotation into the mesh but leaves
\* its position alone.
CD_syncPlayerModel_rotationOnly(cam, pm) ==
  IF CD_isLoaded(pm)
  THEN CD_updateRotation(pm, CD_getPlayerTargetRotation(cam))
  ELSE pm

\* syncPlayerModel
CD_syncPlayerModel(cam, pm) ==
  IF CD_isLoaded(pm)
  THEN CD_updateRotation(CD_updatePosition(pm, CD_getPlayerTargetPosition(pm)),
                         CD_getPlayerTargetRotation(cam))
  ELSE pm

\* A faulty resetToSafePosition that resets the camera rotation but does not
\* move the camera to the collider.
CD_resetToSafePosition_leavesCamera(cam, pm) ==
  << CD_resetCameraRotation(cam),
     IF CD_isLoaded(pm)
     THEN CD_updateRotation(CD_updatePosition(pm, CD_getPlayerTargetPosition(pm)),
                            CD_getPlayerTargetRotation(CD_resetCameraRotation(cam)))
     ELSE pm >>

\* resetToSafePosition: the pair << camera, PlayerModel fields >> after the
\* call
CD_resetToSafePosition(cam, pm) ==
  LET reset == CD_updateCameraPosition(CD_resetCameraRotation(cam), pm)
  IN << reset,
        IF CD_isLoaded(pm)
        THEN CD_updateRotation(CD_updatePosition(pm, CD_getPlayerTargetPosition(pm)),
                               CD_getPlayerTargetRotation(reset))
        ELSE pm >>

\* ------------------------------------------------------------------------
\* SceneManager and the browser's animation frame callbacks
\* ------------------------------------------------------------------------

\* A SceneManager is a record: currentSceneIndex; currentScene, the serial
\* number of the scene instance it holds, or 0 for null; animationId, the
\* handle of its latest requestAnimationFrame, or 0 for null (handles are
\* positive, and the code tests the handle for truth); requests, the browser's
\* list of pending animation frame callbacks, each with its handle id, its
\* owner by ("manager" for SceneManager's animate, "renderer" for the loop
\* a scene registered with renderer.setAnimationLoop) and, for a renderer's,
\* the scene it renders; handles, the handles handed out so far; created,
\* the scenes created so far; invoked, the scene whose animate the
\* manager's loop called last; drives, the runs of the current scene's
\* frame driver in the latest display frame.

\* this.scenes: the three scene creators, by index
Scenes == << "character", "camera", "basic" >>

\* The fields set by the constructor before it calls initScene.
SM_Fields ==
  [currentSceneIndex |-> 0, currentScene |-> 0, animationId |-> 0,
   requests |-> {}, handles |-> 0, created |-> 0, invoked |-> 0, drives |-> 0]

\* A faulty clean-up that leaves the manager's pending callback in place.
SM_cleanup_noCancel(m) ==
  IF m.currentScene # 0
  THEN [m EXCEPT !.requests =
          {q \in @ : ~(q.by = "renderer" /\ q.scene = m.currentScene)}]
  ELSE m

\* initScene, the clean-up: cancelAnimationFrame(this.animationId), and
\* renderer.dispose(), which stops the loop of the renderer.
SM_cleanup(m) ==
  IF m.currentScene # 0
  THEN [m EXCEPT !.requests =
          {q \in @ : /\ ~(m.animationId # 0 /\ q.id = m.animationId)
                     /\ ~(q.by = "renderer" /\ q.scene = m.currentScene)}]
  ELSE m

\* initScene, the creation: this.scenes[this.currentSceneIndex](appElement).
\* The creator calls renderer.setAnimationLoop(render), which requests an
\* animation frame for the renderer's loop.
SM_create(m) ==
  [m EXCEPT !.created = @ + 1,
            !.currentScene = m.created + 1,
            !.handles = @ + 1,
            !.requests = @ \cup {[id |-> m.handles + 1, by |-> "renderer",
                                  scene |-> m.created + 1]},
            !.drives = 0]

\* animate of startAnimation: this.animationId = requestAnimationFrame(animate),
\* then this.currentScene.animate()
SM_animate(m) ==
  [m EXCEPT !.animationId = m.handles + 1,
            !.handles = @ + 1,
            !.requests = @ \cup {[id |-> m.handles + 1, by |-> "manager",
                                  scene |-> 0]},
            !.invoked = m.currentScene,
            !.drives = @ + 1]

\* startAnimation: animate() is called once, directly. That call is outside
\* any display frame.
SM_startAnimation(m) == [SM_animate(m) EXCEPT !.drives = m.drives]

\* initScene
SM_initScene(m) == SM_startAnimation(SM_create(SM_cleanup(m)))

\* nextScene
SM_nextScene(m) ==
  SM_initScene([m EXCEPT !.currentSceneIndex = (@ + 1) % Len(Scenes)])

\* prevScene
SM_prevScene(m) ==
  SM_initScene([m EXCEPT !.currentSceneIndex = (@ - 1 + Len(Scenes)) % Len(Scenes)])

\* new SceneManager()
SceneManager == SM_initScene(SM_Fields)

\* The loop of a renderer, three.js's onAnimationFrame: the callback given
\* to setAnimationLoop (the scene's render), then the next request.
RendererLoop(m, q) ==
  [m EXCEPT !.handles = @ + 1,
            !.requests = @ \cup {[id |-> m.handles + 1, by |-> "renderer",
                                  scene |-> q.scene]},
            !.drives = IF q.scene = m.currentScene THEN @ + 1 ELSE @]

\* The browser runs callback q of its list.
RunCallback(m, q) ==
  IF q.by = "manager"
  THEN SM_animate([m EXCEPT !.requests = @ \ {q}])
  ELSE RendererLoop([m EXCEPT !.requests = @ \ {q}], q)

\* A display frame: the browser runs the callbacks todo, pending when the
\* frame began, in the order of their handles.
RECURSIVE RunCallbacks(_, _)
RunCallbacks(m, todo) ==
  IF todo = {} THEN m
  ELSE LET q == CHOOSE c \in todo : \A d \in todo : c.id <= d.id
       IN RunCallbacks(RunCallback(m, q), todo \ {q})

RunFrame(m) == RunCallbacks([m EXCEPT !.drives = 0], m.requests)

\* The manager that shows the scene of variant v: the constructed one, after
\* as many nextScene as v's index.
ManagerShowing(v) ==
  IF v = Scenes[1] THEN SceneManager
  ELSE IF v = Scenes[2] THEN SM_nextScene(SceneManager)
  ELSE SM_nextScene(SM_nextScene(SceneManager))

\* ------------------------------------------------------------------------
\* The scenes: createGameScenePlayerDriven, createGameSceneCameraDriven
\* ------------------------------------------------------------------------

STEPS_PER_FRAME == 5

GRAVITY == 30

\* The vertical coordinate at or below which teleportPlayerIfOob resets the
\* player: -25.
OobFloor == -25 * Scale

VARIABLES
  variant,       \* which scene was created: "character" or "camera"
  pc,            \* where the scene's render() stands; "idle" between frames
  i,             \* render's loop counter
  deltaTime,     \* render's deltaTime
  keyStates,     \* the scene's key map
  pointerLock,   \* document.pointerLockElement === document.body
  playerModel,   \* the fields of the scene's PlayerModel
  playerCamera,  \* the fields of the scene's PlayerCamera
  camera,        \* the scene's THREE.PerspectiveCamera
  result,        \* checkCollisions' local: the latest capsuleIntersect result
  oobFired,      \* whether the latest teleportPlayerIfOob took its branch
  jumps,         \* jump impulses applied since Space last went down or up
  substeps,      \* substeps of render's loop begun so far
  events,        \* events (input, model loaded) delivered so far
  manager        \* the SceneManager that shows the scene, and the browser's callbacks

vars == << variant, pc, i, deltaTime, keyStates, pointerLock, playerModel,
           playerCamera, camera, result, oobFired, jumps, substeps, events,
           manager >>

\* Bounds of the model.
MaxSubsteps == 5

MaxEvents == 2

\* clock.getDelta() of a frame, in seconds: 200 ms, which render clamps to 50 ms.
Deltas == {Dec(2, 10)}

\* Mouse movements of one mousemove event, in pixels.
MouseMoves == {<< 50, 100 >>}

\* What capsuleIntersect may return for the world: nothing, or a floor
\* penetrated by 0.01.
WorldContacts ==
  {NoContact,
   Contact(Vec(0, Scale, 0), Depth(100, 0))}

\* States a running scene is in at a frame boundary: the state after
\* construction, and falling just above the out-of-bounds floor.
StartStates ==
  {[offset |-> ZeroVec, velocity |-> ZeroVec, onFloor |-> FALSE],
   [offset |-> Vec(0, -Dec(267, 10), 0), velocity |-> Vec(0, -20 * Scale, 0),
    onFloor |-> FALSE]}

NoKeys == [k \in Keys |-> UNDEF]

\* A scene right after its creation, with the physical state of st.
SceneAt(v, st) ==
  /\ variant = v
  /\ pc = "idle"
  /\ i = 0
  /\ deltaTime = 0
  /\ keyStates = NoKeys
  /\ pointerLock = FALSE
  /\ LET pm == IF v = "character" THEN PD_PlayerModel ELSE CD_PlayerModel
     IN playerModel = [pm EXCEPT !.playerCollider = CapsuleTranslate(@, st.offset),
                                 !.playerVelocity = st.velocity,
                                 !.playerOnFloor = st.onFloor]
  /\ playerCamera = IF v = "character" THEN PD_PlayerCamera ELSE CD_PlayerCamera
  /\ camera = NewCamera
  /\ result = NoContact
  /\ oobFired = FALSE
  /\ jumps = 0
  /\ substeps = 0
  /\ events = 0
  /\ manager = ManagerShowing(variant)

Init == \E v \in {"character", "camera"}, st \in StartStates : SceneAt(v, st)

\* --- events, delivered between frames ---

\* the keydown listener
KeyDown(k) ==
  /\ pc = "idle" /\ events < MaxEvents
  /\ keyStates[k] # JSTrue
  /\ keyStates' = [keyStates EXCEPT ![k] = JSTrue]
  /\ jumps' = IF k = "Space" THEN 0 ELSE jumps
  /\ events' = events + 1
  /\ UNCHANGED manager
  /\ UNCHANGED << variant, pc, i, deltaTime, pointerLock, playerModel, playerCamera,
                  camera, result, oobFired, substeps >>

\* the keyup listener
KeyUp(k) ==
  /\ pc = "idle" /\ events < MaxEvents
  /\ keyStates[k] = JSTrue
  /\ keyStates' = [keyStates EXCEPT ![k] = JSFalse]
  /\ jumps' = IF k = "Space" THEN 0 ELSE jumps
  /\ events' = events + 1
  /\ UNCHANGED manager
  /\ UNCHANGED << variant, pc, i, deltaTime, pointerLock, playerModel, playerCamera,
                  camera, result, oobFired, substeps >>

\* the mousedown listener: requestPointerLock, granted by the browser
MouseDown ==
  /\ pc = "idle" /\ events < MaxEvents
  /\ ~pointerLock
  /\ pointerLock' = TRUE
  /\ events' = events + 1
  /\ UNCHANGED manager
  /\ UNCHANGED << variant, pc, i, deltaTime, keyStates, playerModel, playerCamera,
                  camera, result, oobFired, jumps, substeps >>

\* the mousemove listener
MouseMove(movementX, movementY) ==
  /\ pc = "idle" /\ events < MaxEvents
  /\ IF variant = "character"
     THEN /\ playerCamera' = PD_handleMouseMove(playerCamera, pointerLock, movementX, movementY)
          /\ playerModel' = IF pointerLock
                            THEN PD_handleRotationInput(playerModel, movementX)
                            ELSE playerModel
          /\ UNCHANGED camera
     ELSE /\ camera' = CD_handleMouseMove(camera, pointerLock, movementX, movementY)
          /\ UNCHANGED << playerCamera, playerModel >>
  /\ events' = events + 1
  /\ UNCHANGED manager
  /\ UNCHANGED << variant, pc, i, deltaTime, keyStates, pointerLock, result, oobFired,
                  jumps, substeps >>

\* loadModel's promise resolving
ModelLoaded ==
  /\ pc = "idle" /\ events < MaxEvents
  /\ playerModel.player = NULL
  /\ playerModel' = IF variant = "character" THEN PD_loadModel(playerModel)
                    ELSE CD_loadModel(playerModel)
  /\ events' = events + 1
  /\ UNCHANGED manager
  /\ UNCHANGED << variant, pc, i, deltaTime, keyStates, pointerLock, playerCamera,
                  camera, result, oobFired, jumps, substeps >>

\* --- render(), one action per step of its loop ---

\* A faulty render that divides the frame interval without capping it.
RenderBegin_uncapped(delta) ==
  /\ pc = "idle" /\ substeps < MaxSubsteps
  /\ deltaTime' = RDiv(delta, STEPS_PER_FRAME)
  /\ i' = 0
  /\ pc' = IF 0 < STEPS_PER_FRAME THEN "controls" ELSE "render"
  /\ UNCHANGED << variant, keyStates, pointerLock, playerModel, playerCamera, camera,
                  result, oobFired, jumps, substeps, events, manager >>

\* render: deltaTime = Math.min(0.05, clock.getDelta()) / STEPS_PER_FRAME
RenderBegin(delta) ==
  /\ pc = "idle" /\ substeps < MaxSubsteps
  /\ deltaTime' = RDiv(Min(Dec(5, 100), delta), STEPS_PER_FRAME)
  /\ i' = 0
  /\ pc' = IF 0 < STEPS_PER_FRAME THEN "controls" ELSE "render"
  /\ UNCHANGED << variant, keyStates, pointerLock, playerModel, playerCamera, camera,
                  result, oobFired, jumps, substeps, events, manager >>

\* Whether this controls() call applies the jump impulse: processMovement
\* finds its jump flag set, and executeJump finds the player on the floor.
JumpApplies ==
  /\ playerModel.playerOnFloor
  /\ IF variant = "character"
     THEN Truthy(PD_updateMovementState(playerModel, keyStates).moveState.jump)
     ELSE Truthy(CD_updateMovementState(playerCamera, keyStates).moveState.jump)

\* controls(deltaTime)
Controls ==
  /\ pc = "controls" /\ substeps < MaxSubsteps
  /\ substeps' = substeps + 1
  /\ IF variant = "character"
     THEN /\ playerModel' = PD_processMovement(
                              PD_updateMovementState(playerModel, keyStates), deltaTime)
          /\ UNCHANGED playerCamera
     ELSE \E done \in {CD_processMovement(playerCamera, camera, playerModel, keyStates,
                                            deltaTime)} :
            /\ playerCamera' = done[1]
            /\ playerModel' = done[2]
  /\ jumps' = IF JumpApplies THEN jumps + 1 ELSE jumps
  /\ pc' = "updatePhysics"
  /\ UNCHANGED << variant, i, deltaTime, keyStates, pointerLock, camera, result,
                  oobFired, events, manager >>

\* updatePlayer(deltaTime): playerModel.updatePhysics(deltaTime, GRAVITY)
UpdatePhysics ==
  /\ pc = "updatePhysics"
  /\ playerModel' = IF variant = "character"
                    THEN PD_updatePhysics(playerModel, deltaTime, GRAVITY)
                    ELSE CD_updatePhysics(playerModel, deltaTime, GRAVITY)
  /\ pc' = "checkCollisions"
  /\ UNCHANGED << variant, i, deltaTime, keyStates, pointerLock, playerCamera, camera,
                  result, oobFired, jumps, substeps, events, manager >>

\* updatePlayer(deltaTime): playerModel.checkCollisions(worldOctree), the
\* octree answering r
CheckCollisions(r) ==
  /\ pc = "checkCollisions"
  /\ result' = r
  /\ playerModel' = IF variant = "character"
                    THEN PD_checkCollisions(playerModel, r)
                    ELSE CD_checkCollisions(playerModel, r)
  /\ pc' = "updateCamera"
  /\ UNCHANGED << variant, i, deltaTime, keyStates, pointerLock, playerCamera, camera,
                  oobFired, jumps, substeps, events, manager >>

\* updatePlayer(deltaTime), its end: playerCamera.update(deltaTime) in the
\* character-driven scene; updateCameraPosition and syncPlayerModel in the
\* camera-driven scene
UpdateCamera ==
  /\ pc = "updateCamera"
  /\ IF variant = "character"
     THEN \E done \in {PD_cameraUpdate(playerCamera, camera, playerModel, deltaTime)} :
            /\ playerCamera' = done[1]
            /\ camera' = done[2]
            /\ UNCHANGED playerModel
     ELSE \E moved \in {CD_updateCameraPosition(camera, playerModel)} :
            /\ camera' = moved
            /\ playerModel' = IF CD_isLoaded(playerModel)
                              THEN CD_syncPlayerModel(moved, playerModel)
                              ELSE playerModel
            /\ UNCHANGED playerCamera
  /\ pc' = "teleportPlayerIfOob"
  /\ UNCHANGED << variant, i, deltaTime, keyStates, pointerLock, result, oobFired,
                  jumps, substeps, events, manager >>

\* A faulty condition that lets the boundary value -25 itself pass.
IsOob_belowOnly(pm) ==
  IF variant = "character"
  THEN PD_getColliderPosition(pm).y < OobFloor
  ELSE CD_getColliderPosition(pm).y < OobFloor

\* The condition of teleportPlayerIfOob.
IsOob(pm) ==
  IF variant = "character"
  THEN PD_getColliderPosition(pm).y <= OobFloor
  ELSE CD_getColliderPosition(pm).y <= OobFloor

\* teleportPlayerIfOob(), then the loop's i++ and test
TeleportPlayerIfOob ==
  /\ pc = "teleportPlayerIfOob"
  /\ oobFired' = IsOob(playerModel)
  /\ IF ~IsOob(playerModel)
     THEN UNCHANGED << playerModel, playerCamera, camera >>
     ELSE IF variant = "character"
     THEN /\ playerModel' = PD_resetPosition(playerModel)
          /\ playerCamera' = PD_resetCameraAngles(playerCamera)
          /\ UNCHANGED camera
     ELSE \E safe \in {CD_resetToSafePosition(camera, CD_resetPosition(playerModel))} :
            /\ camera' = safe[1]
            /\ playerModel' = IF CD_isLoaded(safe[2])
                              THEN CD_syncPlayerModel(safe[1], safe[2])
                              ELSE safe[2]
            /\ UNCHANGED playerCamera
  /\ i' = i + 1
  /\ pc' = IF i + 1 < STEPS_PER_FRAME THEN "controls" ELSE "render"
  /\ UNCHANGED << variant, deltaTime, keyStates, pointerLock, result, jumps, substeps,
                  events, manager >>

\* renderer.render(scene, camera), and render() returns
RenderScene ==
  /\ pc = "render"
  /\ pc' = "idle"
  /\ UNCHANGED << variant, i, deltaTime, keyStates, pointerLock, playerModel,
                  playerCamera, camera, result, oobFired, jumps, substeps, events,
                  manager >>

Next ==
  \/ \E k \in Keys : KeyDown(k)
  \/ \E k \in Keys : KeyUp(k)
  \/ MouseDown
  \/ \E m \in MouseMoves : MouseMove(m[1], m[2])
  \/ ModelLoaded
  \/ \E delta \in Deltas : RenderBegin(delta)
  \/ Controls
  \/ UpdatePhysics
  \/ \E r \in WorldContacts : CheckCollisions(r)
  \/ UpdateCamera
  \/ TeleportPlayerIfOob
  \/ RenderScene

Spec == Init /\ [][Next]_vars

\* ------------------------------------------------------------------------
\* Properties of the frame driver (Spec)
\* ------------------------------------------------------------------------

\* C1: in both variants, whenever teleportPlayerIfOob takes its
\* out-of-bounds branch, then right after it the collider is the spawn
\* capsule (start (0,0,0), end (0,1.8,0), radius 0.35) and the velocity is
\* (0,0,0), whatever the velocity was before.
C1_ResetAfterOob ==
  [][(pc = "teleportPlayerIfOob" /\ IsOob(playerModel))
       => /\ playerModel'.playerCollider =
               [start |-> [x |-> 0, y |-> 0, z |-> 0],
                end |-> [x |-> 0, y |-> 18000, z |-> 0],
                radius |-> 3500]
          /\ playerModel'.playerVelocity = [x |-> 0, y |-> 0, z |-> 0]]_vars

\* C1 happened: the out-of-bounds branch was just taken in the
\* camera-driven scene, and the player is back at the spawn with no velocity.
C1_Witness ==
  /\ oobFired /\ variant = "camera"
  /\ pc \in {"controls", "render"}
  /\ playerModel.playerCollider = SpawnCapsule
  /\ playerModel.playerVelocity = ZeroVec

\* C7 as stated: in the camera-driven variant the jump is one-shot, so
\* between two changes of the Space key (pressed, released) the jump impulse
\* is applied at most once, however many grounded substeps pass while the
\* key stays held.
C7_JumpOneShot == variant = "camera" => jumps <= 1

\* C9 as stated: in the character-driven variant a step changes
\* playerDirection only if it is a controls() step with the left or the right
\* turn key held; no mouse movement, camera-angle change, physics step,
\* collision or teleport changes it.
C9_FacingOnlyByTurnKeys ==
  [][(variant = "character"
      /\ playerModel'.playerDirection # playerModel.playerDirection)
       => /\ pc = "controls"
          /\ Truthy(keyStates["KeyA"]) \/ Truthy(keyStates["KeyD"])]_vars

\* C9 amended: in the character-driven variant a step changes
\* playerDirection only if it is a controls() step with the left or the right
\* turn key held, or a mousemove event delivered while the pointer is
\* locked; no physics step, collision, camera update or teleport changes it.
C9_FacingByTurnKeysOrLockedMouse ==
  [][(variant = "character"
      /\ playerModel'.playerDirection # playerModel.playerDirection)
       => \/ /\ pc = "controls"
             /\ Truthy(keyStates["KeyA"]) \/ Truthy(keyStates["KeyD"])
          \/ /\ pc = "idle" /\ pointerLock
             /\ \E m \in MouseMoves : MouseMove(m[1], m[2])]_vars

\* C9 happened: no key was ever pressed and no frame was rendered, yet the
\* character no longer faces its initial direction: a mouse movement under
\* pointer lock turned it.
C9_Witness ==
  /\ variant = "character" /\ pointerLock
  /\ keyStates = NoKeys /\ substeps = 0
  /\ playerModel.playerDirection # Vec(0, 0, Scale)

\* C11 as stated: in the character-driven variant with the model loaded, when
\* a substep ends (teleportPlayerIfOob returns) the mesh position is the
\* collider's start point and the mesh yaw is
\* atan2(playerDirection.x, playerDirection.z), also in a substep whose
\* collision moved the collider or whose teleport fired.
C11_MeshFollowsCollider ==
  [][(variant = "character" /\ pc = "teleportPlayerIfOob"
      /\ PD_isLoaded(playerModel))
       => /\ Deref(playerModel'.player).position = playerModel'.playerCollider.start
          /\ Deref(playerModel'.player).rotationY =
               Atan2(playerModel'.playerDirection.x,
                     playerModel'.playerDirection.z)]_vars

C13_CameraOnCollider ==
  [][(variant = "camera" /\ pc = "teleportPlayerIfOob")
       => camera'.position = playerModel'.playerCollider.end]_vars

\* C13 happened: the teleport just reset the collider of the camera-driven
\* scene, and the camera stands on the spawn capsule's end point (0, 1.8, 0).
C13_Witness ==
  /\ variant = "camera" /\ oobFired /\ pc \in {"controls", "render"}
  /\ camera.position = Vec(0, 18000, 0)
  /\ playerModel.playerCollider.end = camera.position

\* C14 as stated: in the character-driven variant, right after
\* teleportPlayerIfOob took its out-of-bounds branch, the follow camera's
\* horizontal angle and its vertical angle are both 0.
C14_AnglesZeroAfterOob ==
  [][(variant = "character" /\ pc = "teleportPlayerIfOob" /\ IsOob(playerModel))
       => /\ playerCamera'.cameraAngleY = 0
          /\ playerCamera'.cameraAngleX = 0]_vars

\* C14 amended: in the character-driven variant, right after
\* teleportPlayerIfOob took its out-of-bounds branch, the follow camera's
\* horizontal angle is 0 and its vertical angle is 0.1 radians (a slight
\* downward tilt), whatever the angles were before.
C14_AnglesResetAfterOob ==
  [][(variant = "character" /\ pc = "teleportPlayerIfOob" /\ IsOob(playerModel))
       => /\ playerCamera'.cameraAngleY = 0
          /\ playerCamera'.cameraAngleX = 1000]_vars

\* C14 happened: the teleport just fired in the character-driven scene, and
\* the follow camera's angles are (0, 0.1), no longer the initial (0, 0.3).
C14_Witness ==
  /\ variant = "character" /\ oobFired /\ pc \in {"controls", "render"}
  /\ playerCamera.cameraAngleY = 0
  /\ playerCamera.cameraAngleX = 1000

\* The physics state of a PlayerModel of variant v: velocity, collider
\* segment and floor flag, and the facing direction of the character.
Physics(v, pm) ==
  << pm.playerVelocity, pm.playerCollider, pm.playerOnFloor,
     IF v = "character" THEN pm.playerDirection ELSE ZeroVec >>

\* What the mesh reference of a PlayerModel may hold: no mesh yet, the mesh
\* as loadModel leaves it, a mesh somewhere else, a mesh below the floor of
\* the out-of-bounds check.
Meshes ==
  {NULL, Ref(LoadedMesh),
   Ref([position |-> Vec(3 * Scale, Scale, -2 * Scale), rotationY |-> 7000]),
   Ref([position |-> Vec(0, -30 * Scale, 0), rotationY |-> 0])}

\* C27: the physics state after every step is the one the step computes
\* from the same state with any other mesh reference, loaded or not: the
\* key sampling, the integration, the collision response, the teleport and
\* the turn by the mouse neither read the mesh nor whether it is loaded. The
\* camera-driven camera does not depend on it either. The arrival of the
\* model changes the mesh reference and nothing else, and the follow camera
\* of the character-driven variant stays where it is while there is no mesh.
C27_PhysicsIgnoresModelLoading ==
  [][\A mesh \in Meshes :
       \E other \in {[playerModel EXCEPT !.player = mesh]} :
         /\ (pc = "controls" /\ variant = "character")
              => Physics(variant, playerModel') =
                   Physics(variant,
                           PD_processMovement(PD_updateMovementState(other, keyStates),
                                              deltaTime))
         /\ (pc = "controls" /\ variant = "camera")
              => Physics(variant, playerModel') =
                   Physics(variant,
                           CD_processMovement(playerCamera, camera, other, keyStates,
                                              deltaTime)[2])
         /\ pc = "updatePhysics"
              => Physics(variant, playerModel') =
                   Physics(variant,
                           IF variant = "character"
                           THEN PD_updatePhysics(other, deltaTime, GRAVITY)
                           ELSE CD_updatePhysics(other, deltaTime, GRAVITY))
         /\ pc = "checkCollisions"
              => Physics(variant, playerModel') =
                   Physics(variant,
                           IF variant = "character"
                           THEN PD_checkCollisions(other, result')
                           ELSE CD_checkCollisions(other, result'))
         /\ pc = "updateCamera"
              => /\ Physics(variant, playerModel') = Physics(variant, playerModel)
                 /\ variant = "camera"
                      => camera' = CD_updateCameraPosition(camera, other)
                 /\ (variant = "character" /\ ~PD_isLoaded(playerModel))
                      => UNCHANGED << camera, playerCamera >>
         /\ pc = "teleportPlayerIfOob"
              => /\ oobFired' = IsOob(other)
                 /\ Physics(variant, playerModel') =
                      Physics(variant,
                              IF ~IsOob(other) THEN other
                              ELSE IF variant = "character" THEN PD_resetPosition(other)
                              ELSE CD_resetPosition(other))
                 /\ variant = "camera" => camera' =
                      (IF IsOob(other)
                       THEN CD_resetToSafePosition(camera, CD_resetPosition(other))[1]
                       ELSE camera)
         /\ (pc = "idle" /\ playerModel'.player # playerModel.player)
              => /\ Physics(variant, playerModel') = Physics(variant, playerModel)
                 /\ UNCHANGED << camera, playerCamera, keyStates, pointerLock, pc >>
         /\ (pc = "idle" /\ playerModel'.player = playerModel.player
                         /\ playerModel' # playerModel)
              => \E m \in MouseMoves :
                   Physics(variant, playerModel') =
                     Physics(variant, PD_handleRotationInput(other, m[1]))]_vars

\* C27 happened: the model arrived before the frame, and the first substep
\* of the character-driven scene has integrated the loaded player's fall.
C27_Witness ==
  /\ variant = "character" /\ pc = "checkCollisions" /\ substeps = 1
  /\ PD_isLoaded(playerModel)
  /\ playerModel.playerVelocity.y < 0

\* C19: a keyboard event is handled between frames and writes nothing but
\* the key map; and when controls() samples the key map, a key that was
\* pressed and released again (its entry is false) counts exactly like a key
\* that was never pressed (its entry is undefined): the velocity, the
\* collider, the facing direction and the floor flag after the call are
\* those of the call with the released keys never pressed.
C19_ReleasedKeyLeavesNoTrace ==
  [][/\ keyStates' # keyStates
          => /\ pc = "idle" /\ pc' = "idle"
             /\ UNCHANGED << playerModel, playerCamera, camera, deltaTime, i >>
     /\ (pc = "controls" /\ variant = "character")
          => \E asIfNeverPressed \in
                  {PD_processMovement(
                     PD_updateMovementState(
                       playerModel,
                       [k \in Keys |-> IF keyStates[k] = JSTrue THEN JSTrue ELSE UNDEF]),
                     deltaTime)} :
               /\ playerModel'.playerVelocity = asIfNeverPressed.playerVelocity
               /\ playerModel'.playerCollider = asIfNeverPressed.playerCollider
               /\ playerModel'.playerDirection = asIfNeverPressed.playerDirection
               /\ playerModel'.playerOnFloor = asIfNeverPressed.playerOnFloor
     /\ (pc = "controls" /\ variant = "camera")
          => \E asIfNeverPressed \in
                  {CD_processMovement(
                     playerCamera, camera, playerModel,
                     [k \in Keys |-> IF keyStates[k] = JSTrue THEN JSTrue ELSE UNDEF],
                     deltaTime)[2]} :
               /\ playerModel'.playerVelocity = asIfNeverPressed.playerVelocity
               /\ playerModel'.playerCollider = asIfNeverPressed.playerCollider
               /\ playerModel'.playerOnFloor = asIfNeverPressed.playerOnFloor]_vars

\* C19 happened: the forward key was pressed and released before the frame
\* began, the first controls() call of the character-driven scene has run,
\* and the player at rest on the spawn is still at rest.
C19_Witness ==
  /\ variant = "character" /\ keyStates["KeyW"] = JSFalse
  /\ pc = "updatePhysics" /\ substeps = 1
  /\ playerModel.playerVelocity = ZeroVec
  /\ playerModel.playerCollider = SpawnCapsule

\* C22 as stated: in the character-driven variant the follow camera's
\* vertical angle cameraAngleX lies within -pi/3 .. pi/12 in every reachable
\* state: initially, after any mouse moves, and after a teleport.
C22_FollowPitchWithinClamp ==
  variant = "character"
    => /\ -RDiv(Pi, 3) <= playerCamera.cameraAngleX
       /\ playerCamera.cameraAngleX <= RDiv(Pi, 12)

\* ------------------------------------------------------------------------
\* One call of one method, from any state the method may be called in
\* ------------------------------------------------------------------------

\* Velocities a player may have when a method is called, on and off the
\* grid's round numbers.
Velocities ==
  {ZeroVec,
   Vec(3 * Scale, 0, -4 * Scale),
   Vec(-Dec(25, 10), Dec(75, 10), Dec(1234, 1000)),
   Vec(0, -20 * Scale, 0),
   Vec(1, -1, 3)}

\* The fields of a PlayerModel of variant v in the middle of a game: the
\* model loaded or not, the collider away from the spawn, any velocity,
\* on the floor or not.
Bodies(v) ==
  {[pm EXCEPT !.playerCollider = CapsuleTranslate(@, Vec(2 * Scale, Dec(35, 100), -Scale)),
              !.playerVelocity = vel,
              !.playerOnFloor = floor] :
     pm \in (IF v = "character" THEN {PD_PlayerModel, PD_loadModel(PD_PlayerModel)}
             ELSE {CD_PlayerModel, CD_loadModel(CD_PlayerModel)}),
     vel \in Velocities,
     floor \in BOOLEAN}

\* The scene of variant v about to run step p of a substep, with player
\* fields pm, substep length dt and key map ks.
CallAt(v, p, pm, dt, ks) ==
  /\ variant = v
  /\ pc = p
  /\ i = 0
  /\ deltaTime = dt
  /\ keyStates = ks
  /\ pointerLock = FALSE
  /\ playerModel = pm
  /\ playerCamera = IF v = "character" THEN PD_PlayerCamera ELSE CD_PlayerCamera
  /\ camera = NewCamera
  /\ result = NoContact
  /\ oobFired = FALSE
  /\ jumps = 0
  /\ substeps = 0
  /\ events = 0
  /\ manager = ManagerShowing(variant)

\* --- checkCollisions ---

\* Unit contact normals: a floor, a slope, two walls, a ceiling, an overhang.
Normals ==
  {Vec(0, Scale, 0), Vec(Dec(6, 10), Dec(8, 10), 0),
   Vec(-Scale, 0, 0), Vec(Dec(6, 10), 0, -Dec(8, 10)),
   Vec(0, -Scale, 0), Vec(Dec(8, 10), -Dec(6, 10), 0)}

\* Penetration depths: 0.02, 0.0157, exactly the noise floor 1e-10, and
\* 0.9e-10 just below it.
Depths == {Depth(200, 0), Depth(157, 0), Depth(0, 10), Depth(0, 9)}

\* What capsuleIntersect may return.
CollideContacts == {NoContact} \cup {Contact(n, d) : n \in Normals, d \in Depths}

InitCollide ==
  \E v \in {"character", "camera"} :
    \E pm \in Bodies(v) : CallAt(v, "checkCollisions", pm, Dec(1, 100), NoKeys)

NextCollide == \E r \in CollideContacts : CheckCollisions(r)

SpecCollide == InitCollide /\ [][NextCollide]_vars

\* C2: checkCollisions, given a contact whose normal has a non-positive
\* vertical component and whose depth is at least 1e-10, translates both
\* ends of the collider by exactly normal * depth, leaves the velocity with
\* no component along the normal, and leaves the velocity's part tangential
\* to the normal as it was (both up to the rounding of the arithmetic, two
\* grid units).
C2_WallContactSlides ==
  [][(/\ pc = "checkCollisions"
      /\ result' # NoContact
      /\ result'[1].normal.y <= 0
      /\ result'[1].depth.units > 0 \/ result'[1].depth.e11 >= 10)
       => LET n == result'[1].normal
              push == Vec(Mul(n.x, result'[1].depth.units),
                          Mul(n.y, result'[1].depth.units),
                          Mul(n.z, result'[1].depth.units))
              before == playerModel.playerVelocity
              after == playerModel'.playerVelocity
              tangentBefore == VSub(before, VScale(n, VDot(n, before)))
              tangentAfter == VSub(after, VScale(n, VDot(n, after)))
          IN /\ playerModel'.playerCollider.start =
                  VAdd(playerModel.playerCollider.start, push)
             /\ playerModel'.playerCollider.end =
                  VAdd(playerModel.playerCollider.end, push)
             /\ playerModel'.playerCollider.radius = playerModel.playerCollider.radius
             /\ Abs(VDot(n, after)) <= 2
             /\ Abs(tangentAfter.x - tangentBefore.x) <= 2
             /\ Abs(tangentAfter.y - tangentBefore.y) <= 2
             /\ Abs(tangentAfter.z - tangentBefore.z) <= 2]_vars

\* C2 happened: the camera-driven checkCollisions met a slanted wall 0.02
\* deep while the player moved at (-2.5, 7.5, 1.234); the player was pushed
\* out by (0.012, 0, -0.016), still rises at 7.5, and its horizontal
\* velocity changed to one along the wall.
C2_Witness ==
  /\ variant = "camera" /\ pc = "updateCamera"
  /\ result = Contact(Vec(Dec(6, 10), 0, -Dec(8, 10)), Depth(200, 0))
  /\ playerModel.playerCollider.start = Vec(2 * Scale + 120, Dec(35, 100), -Scale - 160)
  /\ playerModel.playerVelocity.y = Dec(75, 10)
  /\ playerModel.playerVelocity.x # -Dec(25, 10)
  /\ Abs(Mul(Dec(6, 10), playerModel.playerVelocity.x)
         - Mul(Dec(8, 10), playerModel.playerVelocity.z)) <= 2

\* C3: checkCollisions, given a contact whose normal has a positive vertical
\* component, sets playerOnFloor to true and leaves every component of the
\* velocity exactly as it was.
C3_FloorContactKeepsVelocity ==
  [][(/\ pc = "checkCollisions"
      /\ result' # NoContact
      /\ result'[1].normal.y > 0)
       => /\ playerModel'.playerOnFloor = TRUE
          /\ playerModel'.playerVelocity = playerModel.playerVelocity]_vars

\* C3 happened: the character-driven checkCollisions met a slope while the
\* player, until then airborne, fell at 20: the floor flag is set and the
\* player still falls at 20.
C3_Witness ==
  /\ variant = "character" /\ pc = "updateCamera"
  /\ result # NoContact
  /\ result[1].normal = Vec(Dec(6, 10), Dec(8, 10), 0)
  /\ playerModel.playerOnFloor
  /\ playerModel.playerVelocity = Vec(0, -20 * Scale, 0)

\* C21: in both variants checkCollisions, when capsuleIntersect reports no
\* contact, leaves the floor flag false whatever it was and changes neither
\* the velocity nor the collider; and after every call the floor flag is
\* determined by that call's result alone: false without a contact, and
\* with one, true exactly when the contact normal points upwards.
C21_FloorFlagFromLatestQuery ==
  [][pc = "checkCollisions"
       => /\ result' = NoContact
               => /\ ~playerModel'.playerOnFloor
                  /\ playerModel'.playerVelocity = playerModel.playerVelocity
                  /\ playerModel'.playerCollider = playerModel.playerCollider
          /\ result' # NoContact
               => playerModel'.playerOnFloor = (result'[1].normal.y > 0)]_vars

\* C21 happened: a call of the character-driven checkCollisions found no
\* contact: the floor flag is false, and the moving player of the initial
\* states keeps its velocity and its place.
C21_Witness ==
  /\ variant = "character" /\ pc = "updateCamera"
  /\ result = NoContact
  /\ ~playerModel.playerOnFloor
  /\ playerModel.playerVelocity = Vec(3 * Scale, 0, -4 * Scale)
  /\ playerModel.playerCollider =
       CapsuleTranslate(SpawnCapsule, Vec(2 * Scale, Dec(35, 100), -Scale))

\* --- updatePhysics ---

\* Substep lengths, in seconds: 0, 0.0002 (the shortest whose airborne
\* damping the grid still represents), 0.002, 0.01 (the longest a frame
\* produces) and 0.05.
PhysicsDeltas == {0, 2, Dec(2, 1000), Dec(1, 100), Dec(5, 100)}

InitPhysics ==
  \E v \in {"character", "camera"}, dt \in PhysicsDeltas :
    \E pm \in Bodies(v) : CallAt(v, "updatePhysics", pm, dt, NoKeys)

NextPhysics == UpdatePhysics

SpecPhysics == InitPhysics /\ [][NextPhysics]_vars

\* C4: updatePhysics applies gravity exactly when playerOnFloor is false:
\* airborne, the vertical velocity is first decreased by exactly
\* gravity * deltaTime and then damped (by a tenth of exp(-4 dt) - 1); on
\* the floor the vertical velocity is damped only (by exp(-4 dt) - 1); for
\* every deltaTime >= 0.
C4_GravityOnlyAirborne ==
  [][(pc = "updatePhysics" /\ deltaTime >= 0)
       => LET full == Exp(-4 * deltaTime) - Scale
              before == playerModel.playerVelocity.y
              after == playerModel'.playerVelocity.y
          IN IF playerModel.playerOnFloor
             THEN after = before + Mul(before, full)
             ELSE after = (before - 30 * deltaTime)
                            + Mul(before - 30 * deltaTime, Mul(full, Dec(1, 10)))]_vars

\* C4 happened: an airborne character rising at 7.5 went through an
\* updatePhysics of 0.01 s: it lost 0.3 to gravity and 0.0281 to damping.
C4_Witness ==
  /\ variant = "character" /\ pc = "checkCollisions"
  /\ deltaTime = Dec(1, 100)
  /\ ~playerModel.playerOnFloor
  /\ playerModel.playerVelocity.y = 71719

\* C5: for 0 < deltaTime <= 0.01 and either floor state, the damping of
\* updatePhysics scales each velocity component (after gravity) by a factor
\* strictly between 0 and 1: the component keeps its sign, does not grow,
\* does not become zero unless it was zero, and a component of magnitude 1
\* or more strictly shrinks.
C5_DampingKeepsSign ==
  [][(pc = "updatePhysics" /\ 0 < deltaTime /\ deltaTime <= Dec(1, 100))
       => LET fallen == IF playerModel.playerOnFloor
                        THEN playerModel.playerVelocity
                        ELSE [playerModel.playerVelocity EXCEPT
                                !.y = @ - 30 * deltaTime]
              after == playerModel'.playerVelocity
          IN \A c \in {"x", "y", "z"} :
               /\ Sgn(after[c]) = Sgn(fallen[c])
               /\ Abs(after[c]) <= Abs(fallen[c])
               /\ Abs(fallen[c]) >= Scale => Abs(after[c]) < Abs(fallen[c])]_vars

\* C5 happened: a camera-driven player on the floor moving at (3, 0, -4)
\* went through an updatePhysics of 0.01 s and now moves at
\* (2.8824, 0, -3.8432).
C5_Witness ==
  /\ variant = "camera" /\ pc = "checkCollisions"
  /\ deltaTime = Dec(1, 100)
  /\ playerModel.playerOnFloor
  /\ playerModel.playerVelocity = Vec(28824, 0, -38432)

\* --- executeJump ---

\* processMovement reaching its call of executeJump
ExecuteJump ==
  /\ pc = "executeJump"
  /\ playerModel' = IF variant = "character" THEN PD_executeJump(playerModel)
                    ELSE CD_executeJump(playerModel)
  /\ pc' = "updatePhysics"
  /\ UNCHANGED << variant, i, deltaTime, keyStates, pointerLock, playerCamera, camera,
                  result, oobFired, jumps, substeps, events, manager >>

\* The key map with exactly the keys of held pressed.
Held(held) == [k \in Keys |-> IF k \in held THEN JSTrue ELSE UNDEF]

InitJump ==
  \E v \in {"character", "camera"}, dt \in PhysicsDeltas :
    \E pm \in Bodies(v) : CallAt(v, "executeJump", pm, dt, Held({"Space"}))

NextJump == ExecuteJump

SpecJump == InitJump /\ [][NextJump]_vars

\* C6: executeJump, when playerOnFloor is true, sets the vertical velocity
\* to exactly 15 whatever it was (it overwrites, it does not add); when
\* playerOnFloor is false it changes no velocity component; in both cases
\* the horizontal velocity, the collider and the floor flag are unchanged.
C6_JumpOverwrites ==
  [][pc = "executeJump"
       => /\ playerModel'.playerVelocity.y =
               IF playerModel.playerOnFloor THEN 15 * Scale
               ELSE playerModel.playerVelocity.y
          /\ playerModel'.playerVelocity.x = playerModel.playerVelocity.x
          /\ playerModel'.playerVelocity.z = playerModel.playerVelocity.z
          /\ playerModel'.playerCollider = playerModel.playerCollider
          /\ playerModel'.playerOnFloor = playerModel.playerOnFloor]_vars

\* C6 happened: a character on the floor, moving at (-2.5, 7.5, 1.234),
\* jumped: it now rises at 15, not at 22.5.
C6_Witness ==
  /\ variant = "character" /\ pc = "updatePhysics"
  /\ keyStates["Space"] = JSTrue
  /\ playerModel.playerOnFloor
  /\ playerModel.playerVelocity = Vec(-Dec(25, 10), 15 * Scale, Dec(1234, 1000))

\* --- controls() of the character-driven scene, call after call ---

MaxCalls == 4

\* Keys held during a call of controls().
MoveKeys ==
  {{"KeyA"}, {"KeyD"}, {"KeyA", "KeyD"}, {"KeyW", "KeyS"},
   {"KeyW", "KeyS", "Space"}, {"KeyW", "KeyA"}}

\* Substep lengths of a call: 0.002 and 0.01.
MoveDeltas == {Dec(2, 1000), Dec(1, 100)}

\* controls(deltaTime) of the character-driven scene, with the key map ks
ControlsCall(ks, dt) ==
  /\ variant = "character" /\ pc = "controls"
  /\ substeps < MaxCalls
  /\ keyStates' = ks
  /\ deltaTime' = dt
  /\ playerModel' = PD_processMovement(PD_updateMovementState(playerModel, ks), dt)
  /\ substeps' = substeps + 1
  /\ UNCHANGED << variant, pc, i, pointerLock, playerCamera, camera, result, oobFired,
                  jumps, events, manager >>

InitMove ==
  \E vel \in {ZeroVec, Vec(3 * Scale, 0, -4 * Scale)}, floor \in BOOLEAN :
    CallAt("character", "controls",
           [PD_PlayerModel EXCEPT !.playerVelocity = vel, !.playerOnFloor = floor],
           0, NoKeys)

NextMove == \E held \in MoveKeys, dt \in MoveDeltas : ControlsCall(Held(held), dt)

SpecMove == InitMove /\ [][NextMove]_vars

\* C8: a call with only the left key held rotates playerDirection by
\* +1.5 * deltaTime radians about the vertical axis, one with only the right
\* key by -1.5 * deltaTime, one with both by nothing (each up to the
\* rounding of the arithmetic, two grid units a component); and after every
\* call playerDirection has no vertical component and length 1 (up to one
\* grid unit).
C8_TurnRate ==
  [][(variant = "character" /\ pc = "controls" /\ substeps' = substeps + 1)
       => LET left == Truthy(keyStates'["KeyA"])
              right == Truthy(keyStates'["KeyD"])
              theta == IF left /\ ~right THEN RDiv(15 * deltaTime', 10)
                       ELSE IF right /\ ~left THEN -RDiv(15 * deltaTime', 10)
                       ELSE 0
              before == playerModel.playerDirection
              after == playerModel'.playerDirection
          IN /\ Abs(after.x - (Mul(before.x, Cos(theta)) + Mul(before.z, Sin(theta)))) <= 2
             /\ Abs(after.z - (Mul(before.z, Cos(theta)) - Mul(before.x, Sin(theta)))) <= 2
             /\ after.y = 0
             /\ Abs(VLength(after) - Scale) <= 1]_vars

\* C8 happened: one call of 0.01 s with only the left key held turned the
\* character from (0, 0, 1) to (sin 0.015, 0, cos 0.015).
C8_Witness ==
  /\ keyStates = Held({"KeyA"}) /\ deltaTime = Dec(1, 100) /\ substeps = 1
  /\ playerModel.playerDirection = Vec(150, 0, 9999)

\* C10: a call with forward and backward both held cancels the move: the
\* move vector playerDirection - playerDirection is the zero vector,
\* normalising it yields the zero vector, and the call leaves the horizontal
\* velocity exactly as it was, and the vertical velocity too unless the
\* call also jumps.
C10_ForwardBackwardCancel ==
  [][(/\ variant = "character" /\ pc = "controls" /\ substeps' = substeps + 1
      /\ Truthy(keyStates'["KeyW"]) /\ Truthy(keyStates'["KeyS"]))
       => LET facing == playerModel'.playerDirection
              moveDirection == VSub(VAdd(ZeroVec, facing), facing)
          IN /\ moveDirection = ZeroVec
             /\ VNormalize(moveDirection) = ZeroVec
             /\ playerModel'.playerVelocity.x = playerModel.playerVelocity.x
             /\ playerModel'.playerVelocity.z = playerModel.playerVelocity.z
             /\ ~Truthy(keyStates'["Space"])
                  => playerModel'.playerVelocity = playerModel.playerVelocity]_vars

\* C10 happened: after a turn, a call with forward and backward held went
\* by, and the character that started at (3, 0, -4) still moves at
\* (3, 0, -4).
C10_Witness ==
  /\ keyStates = Held({"KeyW", "KeyS"}) /\ substeps = 2
  /\ playerModel.playerDirection # Vec(0, 0, Scale)
  /\ playerModel.playerVelocity = Vec(3 * Scale, 0, -4 * Scale)

\* ------------------------------------------------------------------------
\* One call of controls() in the camera-driven scene, the camera turned
\* ------------------------------------------------------------------------

\* Camera yaws (rotation.y) of a call: 0, 90 degrees, -90 degrees, 0.7 rad.
CameraYaws == {0, RDiv(Pi, 2), -RDiv(Pi, 2), Dec(7, 10)}

\* Camera pitches (rotation.x) of a call: level, 0.5 rad upwards, and the
\* upper end of the clamp of handleMouseMove (straight up).
CameraPitches == {0, Dec(5, 10), RDiv(Pi, 2)}

\* Keys held during a call of controls().
SteerKeys == {{"KeyW"}, {"KeyW", "KeyD"}, {"KeyS"}, {"KeyA"}, {"KeyD"}}

\* Facings of the character (playerDirection, a unit vector in the XZ plane).
Facings == {Vec(0, 0, Scale), Vec(6000, 0, 8000)}

InitSteer ==
  \E held \in SteerKeys, dt \in MoveDeltas,
     vel \in {ZeroVec, Vec(3 * Scale, 0, -4 * Scale)}, floor \in BOOLEAN :
    /\ pc = "controls"
    /\ i = 0
    /\ deltaTime = dt
    /\ keyStates = Held(held)
    /\ pointerLock = TRUE
    /\ \/ \E yaw \in CameraYaws, pitch \in CameraPitches :
             /\ variant = "camera"
             /\ playerModel = [CD_PlayerModel EXCEPT !.playerVelocity = vel,
                                                     !.playerOnFloor = floor]
             /\ playerCamera = CD_PlayerCamera
             /\ camera = [NewCamera EXCEPT !.rotation = [x |-> pitch, y |-> yaw]]
       \/ \E facing \in Facings :
             /\ variant = "character"
             /\ playerModel = [PD_PlayerModel EXCEPT !.playerVelocity = vel,
                                                     !.playerOnFloor = floor,
                                                     !.playerDirection = facing]
             /\ playerCamera = PD_PlayerCamera
             /\ camera = NewCamera
    /\ result = NoContact
    /\ oobFired = FALSE
    /\ jumps = 0
    /\ substeps = 0
    /\ events = 0
    /\ manager = ManagerShowing(variant)

NextSteer == Controls

SpecSteer == InitSteer /\ [][NextSteer]_vars

\* C15: in the camera-driven variant, with the camera at yaw 90 degrees and
\* pitch 0 and only the forward key held, one processMovement call changes
\* the velocity along the world X axis only: the change has no Y and no Z
\* component, and its size is deltaTime * groundSpeed on the floor and
\* deltaTime * airSpeed off it (on the grid of the arithmetic).
C15_ForwardAtYaw90AlongX ==
  [][(variant = "camera" /\ pc = "controls"
      /\ camera.rotation = [x |-> 0, y |-> 15708]
      /\ keyStates = Held({"KeyW"}))
       => /\ playerModel'.playerVelocity.y = playerModel.playerVelocity.y
          /\ playerModel'.playerVelocity.z = playerModel.playerVelocity.z
          /\ Abs(playerModel'.playerVelocity.x - playerModel.playerVelocity.x) =
               deltaTime * (IF playerModel.playerOnFloor THEN 25 ELSE 8)]_vars

\* C15 happened: a grounded player at rest, the camera at yaw 90 degrees,
\* forward held for a call of 0.01 s: the velocity is 0.25 along -X.
C15_Witness ==
  /\ variant = "camera" /\ pc = "updatePhysics"
  /\ camera.rotation = [x |-> 0, y |-> 15708]
  /\ keyStates = Held({"KeyW"}) /\ deltaTime = 100
  /\ playerModel.playerOnFloor
  /\ playerModel.playerVelocity = Vec(-2500, 0, 0)

\* The keys that push the player: W and S in the character-driven variant
\* (A and D turn the character there), W, A, S and D in the camera-driven one.
DirectionKeys(v) ==
  IF v = "character" THEN {"KeyW", "KeyS"} ELSE {"KeyW", "KeyS", "KeyA", "KeyD"}

\* The change of the horizontal velocity between two PlayerModels.
HorizontalChange(before, after) ==
  [VSub(after.playerVelocity, before.playerVelocity) EXCEPT !.y = 0]

MaxRun == 100

\* The floor under a resting player: a contact with the normal (0, 1, 0) and
\* a depth below checkCollisions' threshold of 1e-10.
RestingContact == Contact(Vec(0, Scale, 0), Depth(0, 9))

\* One pass of render's loop body in the character-driven scene:
\* controls, updatePlayer and teleportPlayerIfOob, the octree answering r.
LoopBody(r) ==
  /\ variant = "character" /\ pc = "controls"
  /\ substeps < MaxRun
  /\ \E moved \in {PD_checkCollisions(
                      PD_updatePhysics(
                        PD_processMovement(
                          PD_updateMovementState(playerModel, keyStates), deltaTime),
                        deltaTime, GRAVITY),
                      r)} :
       \E done \in {PD_cameraUpdate(playerCamera, camera, moved, deltaTime)} :
         /\ oobFired' = IsOob(moved)
         /\ playerModel' = IF IsOob(moved) THEN PD_resetPosition(moved) ELSE moved
         /\ playerCamera' = IF IsOob(moved) THEN PD_resetCameraAngles(done[1])
                            ELSE done[1]
         /\ camera' = done[2]
  /\ result' = r
  /\ i' = (i + 1) % STEPS_PER_FRAME
  /\ substeps' = substeps + 1
  /\ UNCHANGED << variant, pc, deltaTime, keyStates, pointerLock, jumps, events,
                  manager >>

InitRun ==
  \E facing \in {Vec(0, 0, Scale), Vec(6000, 0, 8000)} :
    CallAt("character", "controls",
           [PD_PlayerModel EXCEPT !.playerDirection = facing, !.playerOnFloor = TRUE],
           Dec(1, 100), Held({"KeyW"}))

NextRun == LoopBody(RestingContact)

SpecRun == InitRun /\ [][NextRun]_vars

\* C16: character-driven variant, on the floor at every substep, facing
\* fixed, starting at rest, forward held, deltaTime 0.01: after every one of
\* the 100 substeps the horizontal speed is strictly greater than after the
\* one before and at most 6.1257, the fixed point of
\* v -> (v + 25 * 0.01) * exp(-4 * 0.01); and it approaches that fixed
\* point: after the 100th substep it is within 2 percent of it.  Speeds are
\* compared by their squares (6.1257^2 = 37.5242, (0.98 * 6.1257)^2 = 36.0384).
C16_SpeedRisesToSteadyState ==
  [][(variant = "character" /\ pc = "controls" /\ keyStates = Held({"KeyW"})
      /\ playerModel.playerOnFloor /\ deltaTime = 100)
       => /\ VDot([playerModel'.playerVelocity EXCEPT !.y = 0],
                  [playerModel'.playerVelocity EXCEPT !.y = 0]) >
               VDot([playerModel.playerVelocity EXCEPT !.y = 0],
                    [playerModel.playerVelocity EXCEPT !.y = 0])
          /\ VDot([playerModel'.playerVelocity EXCEPT !.y = 0],
                  [playerModel'.playerVelocity EXCEPT !.y = 0]) <= 375242
          /\ playerModel'.playerOnFloor
          /\ playerModel'.playerDirection = playerModel.playerDirection
          /\ substeps' = 100
               => VDot([playerModel'.playerVelocity EXCEPT !.y = 0],
                       [playerModel'.playerVelocity EXCEPT !.y = 0]) >= 360384]_vars

\* C16 happened: the 100th substep is done, the player started at rest,
\* faces (0.6, 0, 0.8) and moves at more than 6 units a second.
C16_Witness ==
  /\ variant = "character" /\ substeps = 100 /\ keyStates = Held({"KeyW"})
  /\ playerModel.playerDirection = Vec(6000, 0, 8000)
  /\ VDot(playerModel.playerVelocity, playerModel.playerVelocity) > 360000

\* ------------------------------------------------------------------------
\* The basic scene: createGameScene of gameScene.ts
\* ------------------------------------------------------------------------

\* playerCollider of the basic scene
G_SpawnCapsule == Capsule(Vec(0, Dec(35, 100), 0), Vec(0, Scale, 0), Dec(35, 100))

\* The player variables of the basic scene after createGameScene
\* (playerDirection is a scratch vector, written before each read).
G_Player ==
  [player |-> NULL,
   playerCollider |-> G_SpawnCapsule,
   playerVelocity |-> ZeroVec,
   playerOnFloor |-> FALSE]

\* getForwardVector
G_getForwardVector(cam) == VNormalize([GetWorldDirection(cam) EXCEPT !.y = 0])

\* getSideVector
G_getSideVector(cam) == VCross(G_getForwardVector(cam), CameraUp)

\* controls: the velocity after the four direction keys, onFloor being the
\* floor flag and speedDelta = deltaTime * (playerOnFloor ? 25 : 8)
G_steer(velocity, forward, side, ks, speedDelta) ==
  VAdd(VAdd(VAdd(VAdd(velocity,
                      IF Truthy(ks["KeyW"]) THEN VScale(forward, speedDelta) ELSE ZeroVec),
                 IF Truthy(ks["KeyS"]) THEN VScale(forward, -speedDelta) ELSE ZeroVec),
            IF Truthy(ks["KeyA"]) THEN VScale(side, -speedDelta) ELSE ZeroVec),
       IF Truthy(ks["KeyD"]) THEN VScale(side, speedDelta) ELSE ZeroVec)

\* controls
G_controls(pl, cam, ks, dt) ==
  [pl EXCEPT !.playerVelocity =
     [G_steer(@, G_getForwardVector(cam), G_getSideVector(cam), ks,
              dt * (IF pl.playerOnFloor THEN 25 ELSE 8))
        EXCEPT !.y = IF pl.playerOnFloor /\ Truthy(ks["Space"]) THEN 15 * Scale ELSE @]]

\* playerCollisions
G_playerCollisions(pl, r) ==
  IF r = NoContact
  THEN [pl EXCEPT !.playerOnFloor = FALSE]
  ELSE [pl EXCEPT !.playerOnFloor = Deref(r).normal.y > 0,
                  !.playerVelocity =
                     IF ~(Deref(r).normal.y > 0)
                     THEN VAddScaled(@, Deref(r).normal, -VDot(Deref(r).normal, @))
                     ELSE @,
                  !.playerCollider =
                     IF DepthAtLeastNoiseFloor(Deref(r).depth)
                     THEN CapsuleTranslate(@, VScale(Deref(r).normal,
                                                     DepthOnGrid(Deref(r).depth)))
                     ELSE @]

\* updatePlayer, the velocity: gravity when airborne, then the damping
G_damped(velocity, onFloor, dt, full) ==
  IF onFloor
  THEN VAddScaled(velocity, velocity, full)
  ELSE VAddScaled([velocity EXCEPT !.y = @ - GRAVITY * dt],
                  [velocity EXCEPT !.y = @ - GRAVITY * dt],
                  Mul(full, Dec(1, 10)))

\* updatePlayer up to playerCollisions()
G_integrate(pl, velocity, dt) ==
  [pl EXCEPT !.playerVelocity = velocity,
             !.playerCollider = CapsuleTranslate(@, VScale(velocity, dt))]

\* updatePlayer: the player variables after the call (the camera is then
\* copied onto playerCollider.end)
G_updatePlayer(pl, r, dt) ==
  G_playerCollisions(
    G_integrate(pl, G_damped(pl.playerVelocity, pl.playerOnFloor, dt,
                             Exp(-4 * dt) - Scale),
                dt),
    r)

\* controls(deltaTime) of the basic scene
BasicControls ==
  /\ variant = "basic" /\ pc = "controls" /\ substeps < MaxSubsteps
  /\ substeps' = substeps + 1
  /\ playerModel' = G_controls(playerModel, camera, keyStates, deltaTime)
  /\ pc' = "updatePlayer"
  /\ UNCHANGED << variant, i, deltaTime, keyStates, pointerLock, playerCamera, camera,
                  result, oobFired, jumps, events, manager >>

\* updatePlayer(deltaTime) of the basic scene, the octree answering r
BasicUpdatePlayer(r) ==
  /\ variant = "basic" /\ pc = "updatePlayer"
  /\ result' = r
  /\ \E moved \in {G_updatePlayer(playerModel, r, deltaTime)} :
       /\ playerModel' = moved
       /\ camera' = [camera EXCEPT !.position = moved.playerCollider.end]
  /\ pc' = "teleportPlayerIfOob"
  /\ UNCHANGED << variant, i, deltaTime, keyStates, pointerLock, playerCamera,
                  oobFired, jumps, substeps, events, manager >>

\* teleportPlayerIfOob() of the basic scene, then the loop's i++ and test
BasicTeleportPlayerIfOob ==
  /\ variant = "basic" /\ pc = "teleportPlayerIfOob"
  /\ oobFired' = (camera.position.y <= OobFloor)
  /\ IF camera.position.y <= OobFloor
     THEN /\ playerModel' = [playerModel EXCEPT !.playerCollider = G_SpawnCapsule]
          /\ camera' = [camera EXCEPT !.position = G_SpawnCapsule.end,
                                      !.rotation = [x |-> 0, y |-> 0]]
     ELSE UNCHANGED << playerModel, camera >>
  /\ i' = i + 1
  /\ pc' = IF i + 1 < STEPS_PER_FRAME THEN "controls" ELSE "render"
  /\ UNCHANGED << variant, deltaTime, keyStates, pointerLock, playerCamera, result,
                  jumps, substeps, events, manager >>

\* the mousemove listener of the basic scene
BasicMouseMove(movementX, movementY) ==
  /\ variant = "basic" /\ pc = "idle" /\ events < MaxEvents
  /\ camera' = IF pointerLock
               THEN [camera EXCEPT !.rotation.y = @ - RDiv(movementX * Scale, 500),
                                   !.rotation.x = @ - RDiv(movementY * Scale, 500)]
               ELSE camera
  /\ events' = events + 1
  /\ UNCHANGED manager
  /\ UNCHANGED << variant, pc, i, deltaTime, keyStates, pointerLock, playerModel,
                  playerCamera, result, oobFired, jumps, substeps >>

\* The basic scene at a frame boundary: just created, or falling just above
\* the out-of-bounds floor.
InitBasic ==
  \E st \in {[offset |-> ZeroVec, velocity |-> ZeroVec],
              [offset |-> Vec(0, -Dec(259, 10), 0), velocity |-> Vec(0, -20 * Scale, 0)]} :
    /\ variant = "basic"
    /\ pc = "idle"
    /\ i = 0
    /\ deltaTime = 0
    /\ keyStates = NoKeys
    /\ pointerLock = FALSE
    /\ playerModel = [G_Player EXCEPT !.playerCollider = CapsuleTranslate(@, st.offset),
                                      !.playerVelocity = st.velocity]
    /\ playerCamera = CD_PlayerCamera
    /\ camera = [NewCamera EXCEPT !.position =
                   CapsuleTranslate(G_SpawnCapsule, st.offset).end]
    /\ result = NoContact
    /\ oobFired = FALSE
    /\ jumps = 0
    /\ substeps = 0
    /\ events = 0
    /\ manager = ManagerShowing(variant)

NextBasic ==
  \/ \E k \in Keys : KeyDown(k)
  \/ \E k \in Keys : KeyUp(k)
  \/ MouseDown
  \/ \E m \in MouseMoves : BasicMouseMove(m[1], m[2])
  \/ \E delta \in Deltas : RenderBegin(delta)
  \/ BasicControls
  \/ \E r \in WorldContacts : BasicUpdatePlayer(r)
  \/ BasicTeleportPlayerIfOob
  \/ RenderScene

SpecBasic == InitBasic /\ [][NextBasic]_vars

\* C17 as stated, for the basic scene: whenever its teleportPlayerIfOob
\* takes the out-of-bounds branch, then right after it the velocity is
\* exactly (0, 0, 0) and the collider is on its spawn segment
\* (0, 0.35, 0) - (0, 1, 0).
C17_BasicTeleportZeroesVelocity ==
  [][(variant = "basic" /\ pc = "teleportPlayerIfOob"
      /\ camera.position.y <= -250000)
       => /\ playerModel'.playerVelocity = [x |-> 0, y |-> 0, z |-> 0]
          /\ playerModel'.playerCollider.start = [x |-> 0, y |-> 3500, z |-> 0]
          /\ playerModel'.playerCollider.end = [x |-> 0, y |-> 10000, z |-> 0]]_vars

\* ------------------------------------------------------------------------
\* One frame of the character-driven and the camera-driven scene, for
\* several frame intervals
\* ------------------------------------------------------------------------

\* clock.getDelta() of the frame, in seconds: 0, 16 ms, exactly the cap of
\* 50 ms, and 200 ms.
FrameDeltas == {0, Dec(16, 1000), Dec(5, 100), Dec(2, 10)}

InitFrame ==
  \E v \in {"character", "camera"} :
    SceneAt(v, [offset |-> ZeroVec, velocity |-> ZeroVec, onFloor |-> FALSE])

NextFrame ==
  \/ \E k \in {"KeyW", "Space"} : KeyDown(k)
  \/ \E delta \in FrameDeltas : RenderBegin(delta)
  \/ Controls
  \/ UpdatePhysics
  \/ \E r \in WorldContacts : CheckCollisions(r)
  \/ UpdateCamera
  \/ TeleportPlayerIfOob
  \/ RenderScene

SpecFrame == InitFrame /\ [][NextFrame]_vars

\* C18: a call of render() sets deltaTime to min(0.05, elapsed) / 5, which
\* lies in 0 .. 0.01, and keeps it for the whole frame; it runs controls,
\* the physics integration, the collision resolution, the camera update and
\* the out-of-bounds check in this order, five times, no event handler
\* running in between; and it renders once, after the fifth substep.
C18_FiveOrderedSubstepsThenRender ==
  [][/\ (pc = "idle" /\ pc' # "idle")
          => /\ pc' = "controls" /\ i' = 0
             /\ deltaTime' \in {0, 32, 100}
             /\ UNCHANGED << playerModel, playerCamera, camera >>
     /\ pc # "idle" => UNCHANGED << keyStates, pointerLock, events >>
     /\ pc \notin {"idle", "teleportPlayerIfOob"} => UNCHANGED << i, deltaTime >>
     /\ pc = "controls"
          => pc' = "updatePhysics" /\ substeps' = substeps + 1
     /\ pc = "updatePhysics" => pc' = "checkCollisions"
     /\ pc = "checkCollisions" => pc' = "updateCamera"
     /\ pc = "updateCamera" => pc' = "teleportPlayerIfOob"
     /\ pc = "teleportPlayerIfOob"
          => /\ i' = i + 1 /\ deltaTime' = deltaTime
             /\ pc' = IF i + 1 = 5 THEN "render" ELSE "controls"
     /\ pc = "render"
          => /\ i = 5 /\ pc' = "idle"
             /\ UNCHANGED << playerModel, playerCamera, camera, substeps >>]_vars

\* C18 happened: a frame whose interval of 16 ms is below the cap has run
\* its five substeps with deltaTime 0.0032 and has just rendered.
C18_Witness ==
  /\ pc = "idle" /\ i = 5 /\ substeps = 5 /\ deltaTime = 32
  /\ variant = "camera"

\* ------------------------------------------------------------------------
\* One call of teleportPlayerIfOob(), around the out-of-bounds floor
\* ------------------------------------------------------------------------

\* The scene about to run teleportPlayerIfOob at the end of a substep, the
\* collider's end point at height -40, -25.0001, -25, -24.9999 or -24, the
\* camera turned, the model loaded or not, its mesh where the variant's
\* updatePlayer leaves it.
InitOob ==
  \E v \in {"character", "camera"},
     height \in {-40 * Scale, -25 * Scale - 1, -25 * Scale, -25 * Scale + 1, -24 * Scale},
     vel \in {ZeroVec, Vec(0, -20 * Scale, 0), Vec(3 * Scale, -20 * Scale, -4 * Scale)},
     loaded \in BOOLEAN, floor \in BOOLEAN :
    /\ variant = v
    /\ pc = "teleportPlayerIfOob"
    /\ i = 0
    /\ deltaTime = Dec(1, 100)
    /\ keyStates = NoKeys
    /\ pointerLock = TRUE
    /\ camera = IF v = "character" THEN NewCamera
                ELSE [NewCamera EXCEPT !.position = Vec(0, height, 0),
                                       !.rotation = [x |-> Dec(2, 10), y |-> Dec(7, 10)]]
    /\ playerCamera = IF v = "character"
                      THEN PD_handleMouseMove(PD_PlayerCamera, TRUE, 50, 100)
                      ELSE CD_PlayerCamera
    /\ \E pm \in {[(IF v = "character" THEN PD_PlayerModel ELSE CD_PlayerModel)
                     EXCEPT !.playerCollider =
                               CapsuleTranslate(@, Vec(0, height - SpawnCapsule.end.y, 0)),
                            !.playerVelocity = vel,
                            !.playerOnFloor = floor]} :
         playerModel =
           IF ~loaded THEN pm
           ELSE IF v = "character" THEN PD_updateModelTransform(PD_loadModel(pm))
           ELSE CD_syncPlayerModel(camera, CD_loadModel(pm))
    /\ result = NoContact
    /\ oobFired = FALSE
    /\ jumps = 0
    /\ substeps = 1
    /\ events = 0
    /\ manager = ManagerShowing(variant)

NextOob == TeleportPlayerIfOob

SpecOob == InitOob /\ [][NextOob]_vars

\* C20: teleportPlayerIfOob resets the player exactly when the vertical
\* coordinate of the collider's end point is <= -25, the value -25 included:
\* then the collider is back on the spawn capsule and the velocity is zero;
\* otherwise the call changes neither the player (collider, velocity, mesh)
\* nor the camera state.  So after the call that coordinate is > -25.
C20_OobExactlyAtOrBelowFloor ==
  [][pc = "teleportPlayerIfOob"
       => /\ playerModel.playerCollider.end.y <= -250000
               => /\ playerModel'.playerCollider = SpawnCapsule
                  /\ playerModel'.playerVelocity = ZeroVec
          /\ playerModel.playerCollider.end.y > -250000
               => UNCHANGED << playerModel, playerCamera, camera >>
          /\ playerModel'.playerCollider.end.y > -250000]_vars

\* C20 happened: the call found the collider's end point exactly at -25 (the
\* mesh of the character-driven scene still stands 1.8 below, at -26.8) and
\* reset the falling player to the spawn.
C20_Witness ==
  /\ variant = "character" /\ pc = "controls" /\ oobFired
  /\ playerModel.player # NULL
  /\ Deref(playerModel.player).position.y = -268000
  /\ playerModel.playerCollider = SpawnCapsule
  /\ playerModel.playerVelocity = ZeroVec

\* ------------------------------------------------------------------------
\* Mouse moves and teleports of the camera-driven scene, the camera pitched
\* ------------------------------------------------------------------------

\* Mouse movements of one event, in pixels: small ones, and sweeps of 1000
\* pixels (2 radians) up and down.
LookMoves ==
  {<< 50, 100 >>, << -30, -1000 >>, << 7, 1000 >>, << 0, 0 >>, << -200, -40 >>}

\* The camera-driven scene between two frames, or about to run the last
\* teleportPlayerIfOob of a frame with the player below the floor; the
\* camera pitched by 0, 1.5, -1.5, 0.4 or -1 radians, the pointer locked or
\* not.
InitLook ==
  \E pitch \in {0, Dec(15, 10), -Dec(15, 10), Dec(4, 10), -Scale}, locked \in BOOLEAN,
     at \in {"idle", "teleportPlayerIfOob"} :
    /\ variant = "camera"
    /\ pc = at
    /\ i = IF at = "idle" THEN 0 ELSE STEPS_PER_FRAME - 1
    /\ deltaTime = Dec(1, 100)
    /\ keyStates = NoKeys
    /\ pointerLock = locked
    /\ playerModel =
         [CD_PlayerModel EXCEPT !.playerCollider =
            CapsuleTranslate(@, IF at = "idle" THEN ZeroVec ELSE Vec(0, -40 * Scale, 0))]
    /\ playerCamera = CD_PlayerCamera
    /\ camera = [NewCamera EXCEPT !.position = playerModel.playerCollider.end,
                                  !.rotation = [x |-> pitch, y |-> Dec(7, 10)]]
    /\ result = NoContact
    /\ oobFired = FALSE
    /\ jumps = 0
    /\ substeps = 0
    /\ events = 0
    /\ manager = ManagerShowing(variant)

NextLook ==
  \/ \E m \in LookMoves : MouseMove(m[1], m[2])
  \/ TeleportPlayerIfOob
  \/ RenderScene

SpecLook == InitLook /\ [][NextLook]_vars

\* C23: in the camera-driven variant the camera pitch (rotation.x) lies
\* within -pi/2 .. pi/2 in every reachable state, whatever mouse moves and
\* teleports happen; and a mousemove event changes the camera's yaw or
\* pitch only when the pointer is locked.
C23_PitchClampedAndLockGated ==
  /\ [](variant = "camera"
          => /\ -RDiv(Pi, 2) <= camera.rotation.x
             /\ camera.rotation.x <= RDiv(Pi, 2))
  /\ [][(variant = "camera" /\ pc = "idle" /\ camera'.rotation # camera.rotation)
          => pointerLock]_vars

\* C23 happened: a sweep of 1000 pixels upwards from a pitch of 1.5 was
\* stopped at pi/2, the yaw of the same event applied.
C23_Witness ==
  /\ variant = "camera" /\ pointerLock /\ events = 1
  /\ camera.rotation.x = RDiv(Pi, 2)
  /\ camera.rotation.y = Dec(7, 10) + Dec(6, 100)

\* ------------------------------------------------------------------------
\* SceneManager: switching scenes between display frames
\* ------------------------------------------------------------------------

\* Animation frame handles the browser hands out in a run.
MaxHandles == 16

\* The scene of variant v as its creator leaves it.
CreateScene(v) ==
  /\ variant' = v
  /\ pc' = "idle"
  /\ i' = 0
  /\ deltaTime' = 0
  /\ keyStates' = NoKeys
  /\ playerModel' = IF v = "character" THEN PD_PlayerModel
                     ELSE IF v = "camera" THEN CD_PlayerModel ELSE G_Player
  /\ playerCamera' = IF v = "character" THEN PD_PlayerCamera ELSE CD_PlayerCamera
  /\ camera' = IF v = "basic"
                THEN [NewCamera EXCEPT !.position = G_SpawnCapsule.end]
                ELSE NewCamera
  /\ result' = NoContact
  /\ oobFired' = FALSE
  /\ jumps' = 0
  /\ substeps' = 0

\* nextScene (the right button, ArrowRight)
NextScene ==
  /\ manager.handles + 2 <= MaxHandles
  /\ manager' = SM_nextScene(manager)
  /\ CreateScene(Scenes[manager'.currentSceneIndex + 1])
  /\ UNCHANGED << pointerLock, events >>

\* prevScene (the left button, ArrowLeft)
PrevScene ==
  /\ manager.handles + 2 <= MaxHandles
  /\ manager' = SM_prevScene(manager)
  /\ CreateScene(Scenes[manager'.currentSceneIndex + 1])
  /\ UNCHANGED << pointerLock, events >>

\* A display frame: the browser runs the pending animation frame callbacks.
\* What a run of the scene's frame driver does to the scene is the subject
\* of Spec; here the runs are counted in manager.drives.
DisplayFrame ==
  /\ manager.handles + Cardinality(manager.requests) <= MaxHandles
  /\ manager' = RunFrame(manager)
  /\ UNCHANGED << variant, pc, i, deltaTime, keyStates, pointerLock, playerModel,
                  playerCamera, camera, result, oobFired, jumps, substeps, events >>

InitManager ==
  SceneAt("character", [offset |-> ZeroVec, velocity |-> ZeroVec, onFloor |-> FALSE])

NextManager ==
  \/ NextScene
  \/ PrevScene
  \/ DisplayFrame

SpecManager == InitManager /\ [][NextManager]_vars

\* C25: in a display frame the current scene's frame driver runs at most
\* once: the loop of the scene's renderer and the loop of SceneManager never
\* both drive the scene.
C25_OneDriverPerFrame == manager.drives <= 1

\* C26: SceneManager has at most one pending animation frame callback of its
\* own, and it is the one animationId names; the index is one of the scenes';
\* prevScene undoes nextScene on the index and nextScene undoes prevScene;
\* and the scene the manager's loop called last is the current one, never a
\* disposed one.
C26_OneManagerLoopOnCurrentScene ==
  /\ Cardinality({q \in manager.requests : q.by = "manager"}) <= 1
  /\ \A q \in manager.requests : q.by = "manager" => q.id = manager.animationId
  /\ manager.currentSceneIndex \in 0 .. Len(Scenes) - 1
  /\ SM_prevScene(SM_nextScene(manager)).currentSceneIndex = manager.currentSceneIndex
  /\ SM_nextScene(SM_prevScene(manager)).currentSceneIndex = manager.currentSceneIndex
  /\ manager.invoked = manager.currentScene
  /\ manager.currentScene = manager.created
  /\ variant = Scenes[manager.currentSceneIndex + 1]

\* C26 happened: two scenes were disposed of, the index wrapped from the
\* first scene to the last, and a display frame ran on the third scene.
C26_Witness ==
  /\ manager.created = 3
  /\ manager.currentSceneIndex = 2
  /\ manager.drives > 0
  /\ manager.invoked = 3

====
